---------------------------- MODULE Spec2Model ----------------------------
(***************************************************************************)
(* A model of evrmore/core/script.py: the opcode registry, the push        *)
(* encoder, the raw script decoder, the script builder coercions, the      *)
(* SigOp counter, FindAndDelete and the legacy signature hash.             *)
(*                                                                         *)
(* A script is a sequence of bytes (integers 0..255).  Python's 0-based,   *)
(* half-open slices are kept: Slice(s, a, b) is s[a:b].                    *)
(***************************************************************************)
EXTENDS Integers, Sequences, FiniteSets, TLC

(***************************************************************************)
(* Bounds of the model.                                                    *)
(***************************************************************************)
\* longest script enumerated byte by byte over Alphabet
MaxScriptLen == 5
\* payload lengths lie within MaxDelta of each encoding threshold
MaxDelta == 1
\* longest short payload enumerated
MaxSmallLen == 2
\* most items a script is built from
MaxItems == 2
\* longest script enumerated for the SigOp counter
MaxShortScript == 3

\* the transactions signed have at most MaxVin inputs and MaxVout outputs
MaxVin == 2

MaxVout == 2

\* longest script and longest needle given to FindAndDelete
MaxFadLen == 4

MaxNeedleLen == 2

\* CreateMultisigRedeemScript is given at most MaxKeys public keys
MaxKeys == 17

(***************************************************************************)
(* Opcodes used by name (script.py, lines 116-257).                        *)
(***************************************************************************)
OP_0 == 0
OP_PUSHDATA1 == 76
OP_PUSHDATA2 == 77
OP_PUSHDATA4 == 78
OP_1NEGATE == 79
OP_1 == 81
OP_16 == 96
OP_CODESEPARATOR == 171
OP_CHECKSIG == 172
OP_CHECKSIGVERIFY == 173
OP_CHECKMULTISIG == 174
OP_CHECKMULTISIGVERIFY == 175
OP_INVALIDOPCODE == 255

(***************************************************************************)
(* OPCODE_NAMES and OPCODES_BY_NAME: the items of the two dict literals,   *)
(* in source order, each opcode by its byte value.                         *)
(***************************************************************************)
OPCODE_NAMES_items ==
  <<
    <<0, "OP_0">>, <<76, "OP_PUSHDATA1">>, <<77, "OP_PUSHDATA2">>,
    <<78, "OP_PUSHDATA4">>, <<79, "OP_1NEGATE">>, <<80, "OP_RESERVED">>,
    <<81, "OP_1">>, <<82, "OP_2">>, <<83, "OP_3">>,
    <<84, "OP_4">>, <<85, "OP_5">>, <<86, "OP_6">>,
    <<87, "OP_7">>, <<88, "OP_8">>, <<89, "OP_9">>,
    <<90, "OP_10">>, <<91, "OP_11">>, <<92, "OP_12">>,
    <<93, "OP_13">>, <<94, "OP_14">>, <<95, "OP_15">>,
    <<96, "OP_16">>, <<97, "OP_NOP">>, <<98, "OP_VER">>,
    <<99, "OP_IF">>, <<100, "OP_NOTIF">>, <<101, "OP_VERIF">>,
    <<102, "OP_VERNOTIF">>, <<103, "OP_ELSE">>, <<104, "OP_ENDIF">>,
    <<105, "OP_VERIFY">>, <<106, "OP_RETURN">>, <<107, "OP_TOALTSTACK">>,
    <<108, "OP_FROMALTSTACK">>, <<109, "OP_2DROP">>, <<110, "OP_2DUP">>,
    <<111, "OP_3DUP">>, <<112, "OP_2OVER">>, <<113, "OP_2ROT">>,
    <<114, "OP_2SWAP">>, <<115, "OP_IFDUP">>, <<116, "OP_DEPTH">>,
    <<117, "OP_DROP">>, <<118, "OP_DUP">>, <<119, "OP_NIP">>,
    <<120, "OP_OVER">>, <<121, "OP_PICK">>, <<122, "OP_ROLL">>,
    <<123, "OP_ROT">>, <<124, "OP_SWAP">>, <<125, "OP_TUCK">>,
    <<126, "OP_CAT">>, <<127, "OP_SUBSTR">>, <<128, "OP_LEFT">>,
    <<129, "OP_RIGHT">>, <<130, "OP_SIZE">>, <<131, "OP_INVERT">>,
    <<132, "OP_AND">>, <<133, "OP_OR">>, <<134, "OP_XOR">>,
    <<135, "OP_EQUAL">>, <<136, "OP_EQUALVERIFY">>, <<137, "OP_RESERVED1">>,
    <<138, "OP_RESERVED2">>, <<139, "OP_1ADD">>, <<140, "OP_1SUB">>,
    <<141, "OP_2MUL">>, <<142, "OP_2DIV">>, <<143, "OP_NEGATE">>,
    <<144, "OP_ABS">>, <<145, "OP_NOT">>, <<146, "OP_0NOTEQUAL">>,
    <<147, "OP_ADD">>, <<148, "OP_SUB">>, <<149, "OP_MUL">>,
    <<150, "OP_DIV">>, <<151, "OP_MOD">>, <<152, "OP_LSHIFT">>,
    <<153, "OP_RSHIFT">>, <<154, "OP_BOOLAND">>, <<155, "OP_BOOLOR">>,
    <<156, "OP_NUMEQUAL">>, <<157, "OP_NUMEQUALVERIFY">>, <<158, "OP_NUMNOTEQUAL">>,
    <<159, "OP_LESSTHAN">>, <<160, "OP_GREATERTHAN">>, <<161, "OP_LESSTHANOREQUAL">>,
    <<162, "OP_GREATERTHANOREQUAL">>, <<163, "OP_MIN">>, <<164, "OP_MAX">>,
    <<165, "OP_WITHIN">>, <<166, "OP_RIPEMD160">>, <<167, "OP_SHA1">>,
    <<168, "OP_SHA256">>, <<169, "OP_HASH160">>, <<170, "OP_HASH256">>,
    <<171, "OP_CODESEPARATOR">>, <<172, "OP_CHECKSIG">>, <<173, "OP_CHECKSIGVERIFY">>,
    <<174, "OP_CHECKMULTISIG">>, <<175, "OP_CHECKMULTISIGVERIFY">>, <<176, "OP_NOP1">>,
    <<177, "OP_NOP2">>, <<177, "OP_CHECKLOCKTIMEVERIFY">>, <<178, "OP_NOP3">>,
    <<178, "OP_CHECKSEQUENCEVERIFY">>, <<179, "OP_NOP4">>, <<180, "OP_NOP5">>,
    <<181, "OP_NOP6">>, <<182, "OP_NOP7">>, <<183, "OP_NOP8">>,
    <<184, "OP_NOP9">>, <<185, "OP_NOP10">>, <<250, "OP_SMALLINTEGER">>,
    <<251, "OP_PUBKEYS">>, <<253, "OP_PUBKEYHASH">>, <<254, "OP_PUBKEY">>,
    <<255, "OP_INVALIDOPCODE">>, <<192, "OP_EVR_ASSET">>
  >>

OPCODES_BY_NAME_items ==
  <<
    <<"OP_0", 0>>, <<"OP_PUSHDATA1", 76>>, <<"OP_PUSHDATA2", 77>>,
    <<"OP_PUSHDATA4", 78>>, <<"OP_1NEGATE", 79>>, <<"OP_RESERVED", 80>>,
    <<"OP_1", 81>>, <<"OP_2", 82>>, <<"OP_3", 83>>,
    <<"OP_4", 84>>, <<"OP_5", 85>>, <<"OP_6", 86>>,
    <<"OP_7", 87>>, <<"OP_8", 88>>, <<"OP_9", 89>>,
    <<"OP_10", 90>>, <<"OP_11", 91>>, <<"OP_12", 92>>,
    <<"OP_13", 93>>, <<"OP_14", 94>>, <<"OP_15", 95>>,
    <<"OP_16", 96>>, <<"OP_NOP", 97>>, <<"OP_VER", 98>>,
    <<"OP_IF", 99>>, <<"OP_NOTIF", 100>>, <<"OP_VERIF", 101>>,
    <<"OP_VERNOTIF", 102>>, <<"OP_ELSE", 103>>, <<"OP_ENDIF", 104>>,
    <<"OP_VERIFY", 105>>, <<"OP_RETURN", 106>>, <<"OP_TOALTSTACK", 107>>,
    <<"OP_FROMALTSTACK", 108>>, <<"OP_2DROP", 109>>, <<"OP_2DUP", 110>>,
    <<"OP_3DUP", 111>>, <<"OP_2OVER", 112>>, <<"OP_2ROT", 113>>,
    <<"OP_2SWAP", 114>>, <<"OP_IFDUP", 115>>, <<"OP_DEPTH", 116>>,
    <<"OP_DROP", 117>>, <<"OP_DUP", 118>>, <<"OP_NIP", 119>>,
    <<"OP_OVER", 120>>, <<"OP_PICK", 121>>, <<"OP_ROLL", 122>>,
    <<"OP_ROT", 123>>, <<"OP_SWAP", 124>>, <<"OP_TUCK", 125>>,
    <<"OP_CAT", 126>>, <<"OP_SUBSTR", 127>>, <<"OP_LEFT", 128>>,
    <<"OP_RIGHT", 129>>, <<"OP_SIZE", 130>>, <<"OP_INVERT", 131>>,
    <<"OP_AND", 132>>, <<"OP_OR", 133>>, <<"OP_XOR", 134>>,
    <<"OP_EQUAL", 135>>, <<"OP_EQUALVERIFY", 136>>, <<"OP_RESERVED1", 137>>,
    <<"OP_RESERVED2", 138>>, <<"OP_1ADD", 139>>, <<"OP_1SUB", 140>>,
    <<"OP_2MUL", 141>>, <<"OP_2DIV", 142>>, <<"OP_NEGATE", 143>>,
    <<"OP_ABS", 144>>, <<"OP_NOT", 145>>, <<"OP_0NOTEQUAL", 146>>,
    <<"OP_ADD", 147>>, <<"OP_SUB", 148>>, <<"OP_MUL", 149>>,
    <<"OP_DIV", 150>>, <<"OP_MOD", 151>>, <<"OP_LSHIFT", 152>>,
    <<"OP_RSHIFT", 153>>, <<"OP_BOOLAND", 154>>, <<"OP_BOOLOR", 155>>,
    <<"OP_NUMEQUAL", 156>>, <<"OP_NUMEQUALVERIFY", 157>>, <<"OP_NUMNOTEQUAL", 158>>,
    <<"OP_LESSTHAN", 159>>, <<"OP_GREATERTHAN", 160>>, <<"OP_LESSTHANOREQUAL", 161>>,
    <<"OP_GREATERTHANOREQUAL", 162>>, <<"OP_MIN", 163>>, <<"OP_MAX", 164>>,
    <<"OP_WITHIN", 165>>, <<"OP_RIPEMD160", 166>>, <<"OP_SHA1", 167>>,
    <<"OP_SHA256", 168>>, <<"OP_HASH160", 169>>, <<"OP_HASH256", 170>>,
    <<"OP_CODESEPARATOR", 171>>, <<"OP_CHECKSIG", 172>>, <<"OP_CHECKSIGVERIFY", 173>>,
    <<"OP_CHECKMULTISIG", 174>>, <<"OP_CHECKMULTISIGVERIFY", 175>>, <<"OP_NOP1", 176>>,
    <<"OP_NOP2", 177>>, <<"OP_CHECKLOCKTIMEVERIFY", 177>>, <<"OP_NOP3", 178>>,
    <<"OP_CHECKSEQUENCEVERIFY", 178>>, <<"OP_NOP4", 179>>, <<"OP_NOP5", 180>>,
    <<"OP_NOP6", 181>>, <<"OP_NOP7", 182>>, <<"OP_NOP8", 183>>,
    <<"OP_NOP9", 184>>, <<"OP_NOP10", 185>>, <<"OP_SMALLINTEGER", 250>>,
    <<"OP_PUBKEYS", 251>>, <<"OP_PUBKEYHASH", 253>>, <<"OP_PUBKEY", 254>>,
    <<"OP_EVR_ASSET", 192>>
  >>

(***************************************************************************)
(* Python helpers.                                                         *)
(***************************************************************************)
Min(a, b) == IF a <= b THEN a ELSE b

\* s[a:b] for 0 <= a, 0 <= b (Python clamps the bounds to len(s))
Slice(s, a, b) ==
  LET hi == Min(b, Len(s))
  IN  IF a >= hi THEN << >> ELSE SubSeq(s, a + 1, hi)

\* s[k] with a 0-based index
At(s, k) == s[k + 1]

\* dict lookup over the items of a dict literal: the last item with the key wins
DictHas(items, k) == \E n \in 1..Len(items) : items[n][1] = k

DictGet(items, k) ==
  LET last == CHOOSE n \in 1..Len(items) :
                 /\ items[n][1] = k
                 /\ \A m \in (n + 1)..Len(items) : items[m][1] # k
  IN  items[last][2]

DictKeys(items) == { items[n][1] : n \in 1..Len(items) }

(***************************************************************************)
(* CScriptOp.encode_op_pushdata                                            *)
(***************************************************************************)
\* struct.pack(b'<H', n) and struct.pack(b'<I', n)
pack_H(n) == << n % 256, (n \div 256) % 256 >>

pack_I(n) == << n % 256, (n \div 256) % 256, (n \div 65536) % 256,
                (n \div 16777216) % 256 >>

\* the prefix with the first threshold off by one (<= 0x4c for < 0x4c)
pushdata_prefix_late(len) ==
  IF len <= 76 THEN [ok |-> TRUE, bytes |-> << len >>]
  ELSE IF len <= 255 THEN [ok |-> TRUE, bytes |-> << 76, len >>]
  ELSE IF len <= 65535 THEN [ok |-> TRUE, bytes |-> << 77 >> \o pack_H(len)]
  ELSE [ok |-> TRUE, bytes |-> << 78 >> \o pack_I(len)]

\* the prefix with the last threshold off by one (0x100000000 accepted)
pushdata_prefix_limbs_late(hi, lo) ==
  IF hi = 0 /\ lo < 76 THEN [ok |-> TRUE, bytes |-> << lo >>]
  ELSE IF hi = 0 /\ lo <= 255 THEN [ok |-> TRUE, bytes |-> << 76, lo >>]
  ELSE IF hi = 0 THEN [ok |-> TRUE, bytes |-> << 77 >> \o pack_H(lo)]
  ELSE IF hi <= 65536
       THEN [ok |-> TRUE, bytes |-> << 78 >> \o pack_H(lo) \o pack_H(hi)]
  ELSE [ok |-> FALSE, bytes |-> << >>]

\* the bytes put before the payload, by the payload's length; "ok" is FALSE
\* where the code raises ValueError.  Python's integers are unbounded: the
\* length is hi * 0x10000 + lo with 0 <= lo <= 0xffff, so that lengths of
\* 2^32 and more can be written, and struct.pack(b'<I', len) is the two
\* halves in little-endian order.
pushdata_prefix_limbs(hi, lo) ==
  IF hi = 0 /\ lo < 76 THEN [ok |-> TRUE, bytes |-> << lo >>]
  ELSE IF hi = 0 /\ lo <= 255 THEN [ok |-> TRUE, bytes |-> << 76, lo >>]
  ELSE IF hi = 0 THEN [ok |-> TRUE, bytes |-> << 77 >> \o pack_H(lo)]
  ELSE IF hi <= 65535
       THEN [ok |-> TRUE, bytes |-> << 78 >> \o pack_H(lo) \o pack_H(hi)]
  ELSE [ok |-> FALSE, bytes |-> << >>]

pushdata_prefix(len) == pushdata_prefix_limbs(len \div 65536, len % 65536)

encode_op_pushdata(d) == pushdata_prefix(Len(d)).bytes \o d

(***************************************************************************)
(* CScriptOp.encode_op_n, decode_op_n, is_small_int                        *)
(***************************************************************************)
encode_op_n(n) == IF n = 0 THEN OP_0 ELSE OP_1 + n - 1

decode_op_n(op) == IF op = OP_0 THEN 0 ELSE op - OP_1 + 1

is_small_int(op) == (81 <= op /\ op <= 96) \/ op = 0

(***************************************************************************)
(* CScript.raw_iter: one pass of the while loop, from offset i < len(self). *)
(* kind is "yield" (with the triple and the next offset), "invalid"        *)
(* (CScriptInvalidError: the length prefix is missing) or "truncated"      *)
(* (CScriptTruncatedPushDataError, carrying the bytes read).               *)
(***************************************************************************)
IterOut(kind, opcode, hasData, data, sop_idx, next) ==
  [kind |-> kind, opcode |-> opcode, hasData |-> hasData, data |-> data,
   sop_idx |-> sop_idx, next |-> next]

\* b0 + (b1 << 8) + (b2 << 16) + (b3 << 24).  Python's integers are
\* unbounded; a length of 2^31 or more is longer than any script there is,
\* and every such length takes the same path through the code (the slice is
\* clamped, the data is short, the error is raised), so 2^31 - 1 stands for
\* all of them.
le32(b0, b1, b2, b3) ==
  IF b3 >= 128 THEN 2147483647
  ELSE b0 + b1 * 256 + b2 * 65536 + b3 * 16777216

\* the pass without its truncation check: short data is yielded as it is and
\* i runs past the end of the script
raw_iter_data_unchecked(script, opcode, sop_idx, i, datasize) ==
  IterOut("yield", opcode, TRUE,
          IF datasize >= Len(script) - i
          THEN Slice(script, i, Len(script))
          ELSE Slice(script, i, i + datasize),
          sop_idx,
          IF datasize >= 2147483647 - i THEN 2147483647 ELSE i + datasize)

\* the tail of the pass (s[i:i+datasize] is clamped to the end of s): slice
\* the payload, check for truncation, advance and yield
raw_iter_data(script, opcode, sop_idx, i, datasize) ==
  LET data == IF datasize >= Len(script) - i
              THEN Slice(script, i, Len(script))
              ELSE Slice(script, i, i + datasize)
  IN  IF Len(data) < datasize
      THEN IterOut("truncated", opcode, TRUE, data, sop_idx, i)
      ELSE IterOut("yield", opcode, TRUE, data, sop_idx, i + datasize)

\* the three "missing data length" tests with PUSHDATA2's off by one
missing_length_late(opcode, i, n) ==
  IF opcode = OP_PUSHDATA1 THEN i >= n
  ELSE IF opcode = OP_PUSHDATA2 THEN i + 2 >= n
  ELSE i + 3 >= n

\* the "missing data length" tests of OP_PUSHDATA1/2/4, i being the offset
\* after the opcode and n the script's length
missing_length(opcode, i, n) ==
  IF opcode = OP_PUSHDATA1 THEN i >= n
  ELSE IF opcode = OP_PUSHDATA2 THEN i + 1 >= n
  ELSE i + 3 >= n

\* the number of length bytes with OP_PUSHDATA2's taken for one (i += 1)
length_bytes_one(opcode) ==
  IF opcode = OP_PUSHDATA1 THEN 1
  ELSE IF opcode = OP_PUSHDATA2 THEN 1
  ELSE IF opcode = OP_PUSHDATA4 THEN 4
  ELSE 0

\* the number of length bytes after the opcode
length_bytes(opcode) ==
  IF opcode = OP_PUSHDATA1 THEN 1
  ELSE IF opcode = OP_PUSHDATA2 THEN 2
  ELSE IF opcode = OP_PUSHDATA4 THEN 4
  ELSE 0

\* datasize, read little-endian from the length bytes at offset i
read_datasize(script, opcode, i) ==
  IF opcode = OP_PUSHDATA1 THEN At(script, i)
  ELSE IF opcode = OP_PUSHDATA2 THEN At(script, i) + At(script, i + 1) * 256
  ELSE le32(At(script, i), At(script, i + 1),
            At(script, i + 2), At(script, i + 3))

raw_iter_step(script, i0) ==
  LET sop_idx == i0
      opcode  == At(script, i0)
      i       == i0 + 1
  IN  IF opcode > OP_PUSHDATA4
      THEN IterOut("yield", opcode, FALSE, << >>, sop_idx, i)
      ELSE IF opcode < OP_PUSHDATA1
      THEN raw_iter_data(script, opcode, sop_idx, i, opcode)
      ELSE IF missing_length(opcode, i, Len(script))
      THEN IterOut("invalid", opcode, FALSE, << >>, sop_idx, i)
      ELSE raw_iter_data(script, opcode, sop_idx, i + length_bytes(opcode),
                         read_datasize(script, opcode, i))

\* the triple a pass yields
Triple(out) ==
  [opcode |-> out.opcode, hasData |-> out.hasData, data |-> out.data,
   sop_idx |-> out.sop_idx]


(***************************************************************************)
(* evrmore.core._bignum.bn2vch: the minimal signed magnitude of an integer, *)
(* little-endian, the sign in the top bit of the last byte (a byte is       *)
(* appended when the magnitude uses that bit).                              *)
(***************************************************************************)
RECURSIVE le_magnitude(_)
le_magnitude(n) ==
  IF n = 0 THEN << >> ELSE << n % 256 >> \o le_magnitude(n \div 256)

bn2vch(v) ==
  IF v = 0 THEN << >>
  ELSE LET neg == v < 0
           mag == le_magnitude(IF neg THEN 0 - v ELSE v)
           top == mag[Len(mag)]
       IN  IF top >= 128 THEN Append(mag, IF neg THEN 128 ELSE 0)
           ELSE IF neg THEN [mag EXCEPT ![Len(mag)] = top + 128]
           ELSE mag

(***************************************************************************)
(* CScript.__coerce_instance, __new__ (from an iterable of items) and      *)
(* __add__.  An item is [t |-> "op", v |-> byte] (a CScriptOp),            *)
(* [t |-> "int", v |-> integer] or [t |-> "bytes", v |-> byte sequence].   *)
(***************************************************************************)
\* the coercion with the small-integer range cut one short (other < 16)
coerce_instance_short(other) ==
  IF other.t = "op" THEN << other.v >>
  ELSE IF other.t = "int"
  THEN IF 0 <= other.v /\ other.v < 16 THEN << encode_op_n(other.v) >>
       ELSE IF other.v = -1 THEN << OP_1NEGATE >>
       ELSE encode_op_pushdata(bn2vch(other.v))
  ELSE encode_op_pushdata(other.v)

coerce_instance(other) ==
  IF other.t = "op" THEN << other.v >>
  ELSE IF other.t = "int"
  THEN IF 0 <= other.v /\ other.v <= 16 THEN << encode_op_n(other.v) >>
       ELSE IF other.v = -1 THEN << OP_1NEGATE >>
       ELSE encode_op_pushdata(bn2vch(other.v))
  ELSE encode_op_pushdata(other.v)

\* CScript(iterable): b''.join of the coerced items
RECURSIVE CScript_new(_)
CScript_new(items) ==
  IF items = << >> THEN << >>
  ELSE coerce_instance(Head(items)) \o CScript_new(Tail(items))

\* script + other
CScript_add(script, other) == script \o coerce_instance(other)

(***************************************************************************)
(* Outcomes of a method, and "except CScriptInvalidError: return False"    *)
(***************************************************************************)
Returns(v) == [status |-> "return", value |-> v]

Raises(err) == [status |-> err, value |-> FALSE]

\* the class of the error raw_iter raises
raw_iter_error(kind) ==
  IF kind = "invalid" THEN "CScriptInvalidError"
  ELSE "CScriptTruncatedPushDataError"

\* an except clause naming the subclass only
isinstance_truncated_only(err) == err = "CScriptTruncatedPushDataError"

\* isinstance(err, CScriptInvalidError): the class (line 510) and its
\* subclass CScriptTruncatedPushDataError (line 515)
isinstance_CScriptInvalidError(err) ==
  err \in { "CScriptInvalidError", "CScriptTruncatedPushDataError" }

\* try: body / except CScriptInvalidError: return False
except_return_False(body) ==
  IF body.status # "return" /\ isinstance_CScriptInvalidError(body.status)
  THEN Returns(FALSE)
  ELSE body

(***************************************************************************)
(* CScript.has_canonical_pushes                                            *)
(***************************************************************************)
\* the four tests with OP_PUSHDATA2's written < 0xFF
non_canonical_strict(op, data) ==
  IF op > OP_16 THEN FALSE
  ELSE IF op < OP_PUSHDATA1 /\ op > OP_0 /\ Len(data) = 1 /\ data[1] <= 16
  THEN TRUE
  ELSE IF op = OP_PUSHDATA1 /\ Len(data) < OP_PUSHDATA1 THEN TRUE
  ELSE IF op = OP_PUSHDATA2 /\ Len(data) < 255 THEN TRUE
  ELSE IF op = OP_PUSHDATA4 /\ Len(data) <= 65535 THEN TRUE
  ELSE FALSE

\* the four tests of the loop body on one yielded triple: TRUE where the
\* method returns False
non_canonical(op, data) ==
  IF op > OP_16 THEN FALSE
  ELSE IF op < OP_PUSHDATA1 /\ op > OP_0 /\ Len(data) = 1 /\ data[1] <= 16
  THEN TRUE
  ELSE IF op = OP_PUSHDATA1 /\ Len(data) < OP_PUSHDATA1 THEN TRUE
  ELSE IF op = OP_PUSHDATA2 /\ Len(data) <= 255 THEN TRUE
  ELSE IF op = OP_PUSHDATA4 /\ Len(data) <= 65535 THEN TRUE
  ELSE FALSE

\* the try block: the loop from offset i
RECURSIVE has_canonical_pushes_from(_, _)
has_canonical_pushes_from(script, i) ==
  IF ~ (i < Len(script)) THEN Returns(TRUE)
  ELSE LET out == raw_iter_step(script, i)
       IN  IF out.kind # "yield" THEN Raises(raw_iter_error(out.kind))
           ELSE IF non_canonical(out.opcode, out.data) THEN Returns(FALSE)
           ELSE has_canonical_pushes_from(script, out.next)

has_canonical_pushes(script) ==
  except_return_False(has_canonical_pushes_from(script, 0))

(***************************************************************************)
(* CScript.GetSigOpCount                                                   *)
(***************************************************************************)
\* opcode.decode_op_n() at line 834: opcode is the plain int that raw_iter
\* yields (_bord(self[i])), not a CScriptOp, and an int has no attribute
\* decode_op_n: the call raises AttributeError for every opcode.
yielded_opcode_decode_op_n(opcode) == [raises |-> "AttributeError", value |-> 0]

\* the loop from offset i; n and lastOpcode are the method's locals.  The
\* result is [status, n]: status "return" with the count, or the name of the
\* error that leaves the method.
RECURSIVE GetSigOpCount_from(_, _, _, _, _)
GetSigOpCount_from(script, i, n, lastOpcode, fAccurate) ==
  IF ~ (i < Len(script)) THEN [status |-> "return", n |-> n]
  ELSE LET out == raw_iter_step(script, i)
           opcode == out.opcode
       IN  IF out.kind = "invalid"
           THEN [status |-> "CScriptInvalidError", n |-> n]
           ELSE IF out.kind = "truncated"
           THEN [status |-> "CScriptTruncatedPushDataError", n |-> n]
           ELSE IF opcode \in { OP_CHECKSIG, OP_CHECKSIGVERIFY }
           THEN GetSigOpCount_from(script, out.next, n + 1, opcode, fAccurate)
           ELSE IF opcode \in { OP_CHECKMULTISIG, OP_CHECKMULTISIGVERIFY }
           THEN IF fAccurate /\ OP_1 <= lastOpcode /\ lastOpcode <= OP_16
                THEN LET dec == yielded_opcode_decode_op_n(opcode)
                     IN  IF dec.raises # "no"
                         THEN [status |-> dec.raises, n |-> n]
                         ELSE GetSigOpCount_from(script, out.next, n + dec.value,
                                                 opcode, fAccurate)
                ELSE GetSigOpCount_from(script, out.next, n + 20, opcode, fAccurate)
           ELSE GetSigOpCount_from(script, out.next, n, opcode, fAccurate)

GetSigOpCount(script, fAccurate) ==
  GetSigOpCount_from(script, 0, 0, OP_INVALIDOPCODE, fAccurate)

(***************************************************************************)
(* CScript.is_witness_scriptpubkey                                         *)
(***************************************************************************)
\* one field of struct.unpack('<bb', ...): the byte as a signed 8-bit value
unpack_b(b) == IF b >= 128 THEN b - 256 ELSE b

\* CScriptOp(n): the n-th of the 256 opcode instances; a negative n indexes
\* the list from its end
CScriptOp(n) == IF n < 0 THEN n + 256 ELSE n

is_witness_scriptpubkey(script) ==
  LET size == Len(script)
  IN  IF size < 4 \/ size > 42 THEN FALSE
      ELSE LET head == << unpack_b(At(script, 0)), unpack_b(At(script, 1)) >>
           IN  IF ~ is_small_int(CScriptOp(head[1])) THEN FALSE
               ELSE IF head[2] + 2 # size THEN FALSE
               ELSE TRUE

(***************************************************************************)
(* CScript.__iter__ ("cooked" iteration) and list(self)                    *)
(***************************************************************************)
\* a cooked value: the integer v (t = "int"), the byte string data
\* (t = "bytes") or the CScriptOp v (t = "op")
Cooked(t, v, data) == [t |-> t, v |-> v, data |-> data]

\* the body of the loop with the test on data before the test on opcode == 0
iter_value_data_first(out) ==
  IF out.hasData THEN Cooked("bytes", 0, out.data)
  ELSE IF out.opcode = 0 THEN Cooked("int", 0, << >>)
  ELSE LET opcode == CScriptOp(out.opcode)
       IN  IF is_small_int(opcode) THEN Cooked("int", decode_op_n(opcode), << >>)
           ELSE Cooked("op", CScriptOp(opcode), << >>)

\* the body of the loop: what is yielded for one triple of raw_iter
iter_value(out) ==
  IF out.opcode = 0 THEN Cooked("int", 0, << >>)
  ELSE IF out.hasData THEN Cooked("bytes", 0, out.data)
  ELSE LET opcode == CScriptOp(out.opcode)
       IN  IF is_small_int(opcode) THEN Cooked("int", decode_op_n(opcode), << >>)
           ELSE Cooked("op", CScriptOp(opcode), << >>)

\* list(self) from offset i: [status, values, raw], status "return" with the
\* cooked values (and the raw triples they were made from), or the name of
\* the error raw_iter raises
RECURSIVE list_from(_, _, _, _)
list_from(script, i, values, raw) ==
  IF ~ (i < Len(script))
  THEN [status |-> "return", values |-> values, raw |-> raw]
  ELSE LET out == raw_iter_step(script, i)
       IN  IF out.kind = "invalid"
           THEN [status |-> "CScriptInvalidError", values |-> values, raw |-> raw]
           ELSE IF out.kind = "truncated"
           THEN [status |-> "CScriptTruncatedPushDataError", values |-> values,
                 raw |-> raw]
           ELSE list_from(script, out.next, Append(values, iter_value(out)),
                          Append(raw, Triple(out)))

list_self(script) == list_from(script, 0, << >>, << >>)

(***************************************************************************)
(* CScript.witness_version, is_witness_v0_keyhash, is_witness_v0_scripthash *)
(***************************************************************************)
\* next(iter(self)): the generator is run to its first yield only
witness_version(script) ==
  IF ~ (0 < Len(script)) THEN Raises("StopIteration")
  ELSE LET out == raw_iter_step(script, 0)
       IN  IF out.kind = "invalid" \/ out.kind = "truncated"
           THEN Raises(raw_iter_error(out.kind))
           ELSE Returns(iter_value(out))

\* the test with the length of the nested form (23 bytes)
is_witness_v0_keyhash_nested_len(script) ==
  Len(script) = 23 /\ Slice(script, 0, 2) = << 0, 20 >>

\* len(self) == 22 and self[0:2] == b'\x00\x14'
is_witness_v0_keyhash(script) ==
  Len(script) = 22 /\ Slice(script, 0, 2) = << 0, 20 >>

\* len(self) == 34 and self[0:2] == b'\x00\x20'
is_witness_v0_scripthash(script) ==
  Len(script) = 34 /\ Slice(script, 0, 2) = << 0, 32 >>

(***************************************************************************)
(* CScript.is_push_only and CScript.is_valid                               *)
(***************************************************************************)
\* the try block of is_push_only: the loop from offset i
RECURSIVE is_push_only_from(_, _)
is_push_only_from(script, i) ==
  IF ~ (i < Len(script)) THEN Returns(TRUE)
  ELSE LET out == raw_iter_step(script, i)
       IN  IF out.kind # "yield" THEN Raises(raw_iter_error(out.kind))
           ELSE IF out.opcode > OP_16 THEN Returns(FALSE)
           ELSE is_push_only_from(script, out.next)

is_push_only(script) == except_return_False(is_push_only_from(script, 0))

is_valid(script) ==
  except_return_False(IF list_self(script).status = "return" THEN Returns(TRUE)
                      ELSE Raises(list_self(script).status))

(***************************************************************************)
(* CreateMultisigRedeemScript                                              *)
(***************************************************************************)
\* the argument check with the number of keys allowed one past 16
multisig_args_ok_late(required, n) == 0 <= required /\ required <= n /\ n <= 17

\* 0 <= required <= len(pubkeys) <= 16
multisig_args_ok(required, n) == 0 <= required /\ required <= n /\ n <= 16

\* for pubkey in pubkeys: script += pubkey
RECURSIVE add_each_pubkey(_, _)
add_each_pubkey(script, pubkeys) ==
  IF pubkeys = << >> THEN script
  ELSE add_each_pubkey(CScript_add(script, [t |-> "bytes", v |-> Head(pubkeys)]),
                       Tail(pubkeys))

CreateMultisigRedeemScript(required, pubkeys) ==
  IF ~ multisig_args_ok(required, Len(pubkeys)) THEN Raises("ValueError")
  ELSE LET script0 == CScript_new(<< [t |-> "int", v |-> required] >>)
           script1 == add_each_pubkey(script0, pubkeys)
           script2 == CScript_add(script1, [t |-> "int", v |-> Len(pubkeys)])
       IN  Returns(CScript_add(script2, [t |-> "op", v |-> OP_CHECKMULTISIG]))

(***************************************************************************)
(* CScript.is_p2sh and to_p2sh_scriptPubKey                                *)
(***************************************************************************)
MAX_SCRIPT_ELEMENT_SIZE == 520

OP_EQUAL == 135

OP_HASH160 == 169

\* the test with the last byte looked for one place early (self[21])
is_p2sh_last_early(script) ==
  /\ Len(script) = 23
  /\ script[1] = OP_HASH160
  /\ script[2] = 20
  /\ script[22] = OP_EQUAL

is_p2sh(script) ==
  /\ Len(script) = 23
  /\ script[1] = OP_HASH160
  /\ script[2] = 20
  /\ script[23] = OP_EQUAL

\* evrmore.core.Hash160(s): 20 bytes that depend on s alone
Hash160(s) ==
  [k \in 1..20 |->
     (Len(s) + 7 * k + (IF s = << >> THEN 0 ELSE s[1] + 3 * s[Len(s)])) % 256]

\* the size check refusing one byte early (len(self) >= 520)
redeemScript_exceeds_early(checksize, len) ==
  checksize /\ len >= MAX_SCRIPT_ELEMENT_SIZE

\* checksize and len(self) > MAX_SCRIPT_ELEMENT_SIZE
redeemScript_exceeds(checksize, len) ==
  checksize /\ len > MAX_SCRIPT_ELEMENT_SIZE

to_p2sh_scriptPubKey(script, checksize) ==
  IF redeemScript_exceeds(checksize, Len(script)) THEN Raises("ValueError")
  ELSE Returns(CScript_new(<< [t |-> "op", v |-> OP_HASH160],
                              [t |-> "bytes", v |-> Hash160(script)],
                              [t |-> "op", v |-> OP_EQUAL] >>))

(***************************************************************************)
(* FindAndDelete                                                           *)
(***************************************************************************)
SIGHASH_ALL == 1

SIGHASH_NONE == 2

SIGHASH_SINGLE == 3

SIGHASH_ANYONECANPAY == 128

\* line 889 failing to see a needle that ends the script
sig_at_inner(script, sop_idx, sig) ==
  /\ sop_idx + Len(sig) < Len(script)
  /\ Slice(script, sop_idx, sop_idx + Len(sig)) = sig

\* line 889 taking a slice cut short by the end of the script for a match
\* when it is the beginning of the needle
sig_at_prefix(script, sop_idx, sig) ==
  LET found == Slice(script, sop_idx, sop_idx + Len(sig))
  IN  found = Slice(sig, 0, Len(found))

\* line 889 with an empty needle matching nowhere
sig_at_nonempty(script, sop_idx, sig) ==
  /\ sig # << >>
  /\ Slice(script, sop_idx, sop_idx + Len(sig)) = sig

\* line 889: script[sop_idx:sop_idx + len(sig)] == sig
sig_at(script, sop_idx, sig) ==
  Slice(script, sop_idx, sop_idx + Len(sig)) = sig

\* the loop over script.raw_iter() from offset i; r, last_sop_idx and skip
\* are the function's locals.  The result is [status, script]: status
\* "return" with CScript(r), or the name of the error raw_iter raises.
RECURSIVE FindAndDelete_from(_, _, _, _, _, _)
FindAndDelete_from(script, sig, i, r, last_sop_idx, skip) ==
  IF ~ (i < Len(script))
  THEN [status |-> "return",
        script |-> IF ~ skip THEN r \o Slice(script, last_sop_idx, Len(script))
                   ELSE r]
  ELSE LET out == raw_iter_step(script, i)
           sop_idx == out.sop_idx
           r1 == IF ~ skip THEN r \o Slice(script, last_sop_idx, sop_idx) ELSE r
       IN  IF out.kind = "invalid"
           THEN [status |-> "CScriptInvalidError", script |-> << >>]
           ELSE IF out.kind = "truncated"
           THEN [status |-> "CScriptTruncatedPushDataError", script |-> << >>]
           ELSE FindAndDelete_from(script, sig, out.next, r1, sop_idx,
                                   sig_at(script, sop_idx, sig))

FindAndDelete(script, sig) == FindAndDelete_from(script, sig, 0, << >>, 0, TRUE)

(***************************************************************************)
(* RawSignatureHash and SignatureHash (sigversion BASE), statement by      *)
(* statement.                                                              *)
(*                                                                         *)
(* Objects live in a heap h = [txs, txins].  h.txs maps a transaction's    *)
(* identity to its attributes [nVersion, vin, vout, nLockTime, wit]: vin   *)
(* is the list of the identities of its inputs, vout the list of its       *)
(* outputs (CTxOut objects are never written to, so they are values), wit  *)
(* its witness.  h.txins maps an input's identity to [prevout, scriptSig,  *)
(* nSequence].  The caller's transaction is TxTo and its inputs are        *)
(* << TxTo, 1 >>, << TxTo, 2 >>, ...; the transaction a computation t      *)
(* allocates is t, with inputs << t, 1 >>, ...                             *)
(*                                                                         *)
(* A computation's locals are a record l: pc the statement it is at, api   *)
(* the function called ("raw": RawSignatureHash, "cooked": SignatureHash), *)
(* script, inIdx, hashtype the arguments, txtmp, outIdx, tmp, i the        *)
(* function's variables, iter and n the list and the range a for loop runs *)
(* over (evaluated once, when the loop is entered), raw the pair           *)
(* RawSignatureHash returned and result what the caller gets.              *)
(* Every statement is an operator from (h, l) to the [h, l] after it.      *)
(***************************************************************************)
TxTo == 0

HASH_ONE == [k \in 1..32 |-> IF k = 1 THEN 1 ELSE 0]

None == [tag |-> "None", idx |-> 0, len |-> 0]

\* "inIdx %d out of range (%d)" % (idx, len), "outIdx %d out of range (%d)"
ErrTag(tag, idx, len) == [tag |-> tag, idx |-> idx, len |-> len]

NoResult == [kind |-> "none", hash |-> << >>, err |-> None, exc |-> "none"]

Unbound == [t |-> "unbound", out |-> << >>, ref |-> << >>]

HashtypeBase(hashtype) == hashtype % 32

HasAnyoneCanPay(hashtype) == (hashtype \div SIGHASH_ANYONECANPAY) % 2 = 1

\* evrmore.core.CTxOut(): the default output
CTxOut_default == [nValue |-> -1, scriptPubKey |-> << >>]

\* evrmore.core.CTxWitness(): the empty witness
CTxWitness_empty == << >>

\* evrmore.core.CMutableTransaction.from_tx(h.txs[src]): a deep copy,
\* allocated as transaction new with inputs << new, 1 >>, ...
from_tx(h, src, new) ==
  LET tx == h.txs[src]
      refs == [k \in 1..Len(tx.vin) |-> << new, k >>]
  IN  [txs |-> (new :> [tx EXCEPT !.vin = refs]) @@ h.txs,
       txins |-> [r \in { refs[k] : k \in 1..Len(refs) } |->
                    h.txins[tx.vin[r[2]]]] @@ h.txins]

\* the transaction as tx.serialize() sees it: the inputs by value
TxValue(h, tx) ==
  [h.txs[tx] EXCEPT !.vin = [k \in 1..Len(h.txs[tx].vin) |->
                               h.txins[h.txs[tx].vin[k]]]]

\* txtmp.serialize() + struct.pack(b"<i", hashtype): the bytes are stood
\* for by what they are the encoding of
serialize(h, tx, hashtype) == [tx |-> TxValue(h, tx), hashtype |-> hashtype]

\* evrmore.core.Hash(s): two digests are equal only if their preimages are
Hash(s) == [kind |-> "Hash", of |-> s]

Mk(h, l) == [h |-> h, l |-> l]

\* return (hash, err) from RawSignatureHash: to the caller, or back into
\* SignatureHash at the assignment of (h, err)
RawReturn(l, hash, err) ==
  LET pair == [kind |-> "return", hash |-> hash, err |-> err, exc |-> "none"]
  IN  IF l.api = "raw" THEN [l EXCEPT !.raw = pair, !.result = pair, !.pc = "done"]
      ELSE [l EXCEPT !.raw = pair, !.pc = "sh_err"]

\* an exception leaves both functions: neither has a handler
Raise(l, exc, arg) ==
  [l EXCEPT !.result = [kind |-> "raise", hash |-> << >>, err |-> arg,
                        exc |-> exc],
            !.pc = "done"]

\* the statement after the if / elif on the hashtype's base type
AfterBranch(l) ==
  IF HasAnyoneCanPay(l.hashtype) THEN [l EXCEPT !.pc = "acp_tmp"]
  ELSE [l EXCEPT !.pc = "wit"]

\* for i in range(n): the loop at pc loop is entered, or skipped if empty
EnterRange(l, n, loop, after) ==
  IF n > 0 THEN [l EXCEPT !.i = 0, !.n = n, !.pc = loop] ELSE after

\* the end of one pass of a for loop over n items
NextPass(l, n, after) ==
  IF l.i + 1 < n THEN [l EXCEPT !.i = l.i + 1] ELSE after

\* for x in list: the loop at pc loop is entered, or skipped if empty
EnterList(l, list, loop, after) ==
  IF Len(list) > 0 THEN [l EXCEPT !.i = 0, !.iter = list, !.pc = loop]
  ELSE after

\* the if / elif on the hashtype's base type (lines 972 and 979)
Branch(l) ==
  IF HashtypeBase(l.hashtype) = SIGHASH_NONE THEN [l EXCEPT !.pc = "none_vout"]
  ELSE IF HashtypeBase(l.hashtype) = SIGHASH_SINGLE
  THEN [l EXCEPT !.pc = "single_outIdx"]
  ELSE AfterBranch(l)

\* SignatureHash, line 1060: assert not script.is_witness_scriptpubkey()
st_assert(h, l) ==
  IF is_witness_scriptpubkey(l.script)
  THEN Mk(h, Raise(l, "AssertionError", None))
  ELSE Mk(h, [l EXCEPT !.pc = "inIdx"])

\* lines 963-964 with the comparison strict (> for >=)
st_inIdx_strict(h, l) ==
  IF l.inIdx > Len(h.txs[TxTo].vin)
  THEN Mk(h, RawReturn(l, HASH_ONE,
                       ErrTag("inIdx out of range", l.inIdx, Len(h.txs[TxTo].vin))))
  ELSE Mk(h, [l EXCEPT !.pc = "from_tx"])

\* lines 963-964: if inIdx >= len(txTo.vin): return (HASH_ONE, "inIdx ...")
st_inIdx(h, l) ==
  IF l.inIdx >= Len(h.txs[TxTo].vin)
  THEN Mk(h, RawReturn(l, HASH_ONE,
                       ErrTag("inIdx out of range", l.inIdx, Len(h.txs[TxTo].vin))))
  ELSE Mk(h, [l EXCEPT !.pc = "from_tx"])

\* line 965 without the copy (txtmp = txTo)
st_from_tx_alias(h, l) ==
  Mk(h, EnterList([l EXCEPT !.txtmp = TxTo], h.txs[TxTo].vin, "clear",
                  [l EXCEPT !.txtmp = TxTo, !.pc = "scriptSig"]))

\* line 965: txtmp = CMutableTransaction.from_tx(txTo); line 967 then
\* evaluates txtmp.vin, the list the loop runs over
st_from_tx(h, l) ==
  LET h1 == from_tx(h, TxTo, l.t)
  IN  Mk(h1, EnterList([l EXCEPT !.txtmp = l.t], h1.txs[l.t].vin, "clear",
                       [l EXCEPT !.txtmp = l.t, !.pc = "scriptSig"]))

\* line 968 on the caller's input (txTo.vin[i].scriptSig = b'')
st_clear_shared(h, l) ==
  Mk([h EXCEPT !.txins[<< TxTo, l.i + 1 >>].scriptSig = << >>],
     NextPass(l, Len(l.iter), [l EXCEPT !.pc = "scriptSig"]))

\* line 968, one pass: txin.scriptSig = b''
st_clear(h, l) ==
  Mk([h EXCEPT !.txins[l.iter[l.i + 1]].scriptSig = << >>],
     NextPass(l, Len(l.iter), [l EXCEPT !.pc = "scriptSig"]))

\* lines 969-970: the right-hand side is evaluated first (it may raise),
\* then txtmp.vin[inIdx]
st_scriptSig(h, l) ==
  LET fad == FindAndDelete(l.script,
                           CScript_new(<< [t |-> "op", v |-> OP_CODESEPARATOR] >>))
      vin == h.txs[l.txtmp].vin
  IN  IF fad.status # "return" THEN Mk(h, Raise(l, fad.status, None))
      ELSE IF ~ (l.inIdx < Len(vin)) THEN Mk(h, Raise(l, "IndexError", None))
      ELSE Mk([h EXCEPT !.txins[vin[l.inIdx + 1]].scriptSig = fad.script],
              Branch(l))

\* line 973: txtmp.vout = []; line 975 then evaluates range(len(txtmp.vin))
st_none_vout(h, l) ==
  LET h1 == [h EXCEPT !.txs[l.txtmp].vout = << >>]
  IN  Mk(h1, EnterRange(l, Len(h1.txs[l.txtmp].vin), "none_seq", AfterBranch(l)))

\* lines 976-977 and 991-992, one pass:
\* if i != inIdx: txtmp.vin[i].nSequence = 0
seq_pass(h, l) ==
  LET vin == h.txs[l.txtmp].vin
  IN  IF l.i = l.inIdx THEN Mk(h, NextPass(l, l.n, AfterBranch(l)))
      ELSE IF ~ (l.i < Len(vin)) THEN Mk(h, Raise(l, "IndexError", None))
      ELSE Mk([h EXCEPT !.txins[vin[l.i + 1]].nSequence = 0],
              NextPass(l, l.n, AfterBranch(l)))

st_none_seq(h, l) == seq_pass(h, l)

\* lines 980-982: outIdx = inIdx; if outIdx >= len(txtmp.vout): return ...
st_single_outIdx(h, l) ==
  LET outIdx == l.inIdx
      vout == h.txs[l.txtmp].vout
  IN  IF outIdx >= Len(vout)
      THEN Mk(h, RawReturn([l EXCEPT !.outIdx = outIdx], HASH_ONE,
                           ErrTag("outIdx out of range", outIdx, Len(vout))))
      ELSE Mk(h, [l EXCEPT !.outIdx = outIdx, !.pc = "single_tmp"])

\* line 984: tmp = txtmp.vout[outIdx]
st_single_tmp(h, l) ==
  LET vout == h.txs[l.txtmp].vout
  IN  IF ~ (l.outIdx < Len(vout)) THEN Mk(h, Raise(l, "IndexError", None))
      ELSE Mk(h, [l EXCEPT !.tmp = [t |-> "CTxOut", out |-> vout[l.outIdx + 1],
                                    ref |-> << >>],
                           !.pc = "single_vout"])

\* line 985: txtmp.vout = []; line 986 then evaluates range(outIdx)
st_single_vout(h, l) ==
  Mk([h EXCEPT !.txs[l.txtmp].vout = << >>],
     EnterRange(l, l.outIdx, "single_pad", [l EXCEPT !.pc = "single_append"]))

\* line 987, one pass: txtmp.vout.append(CTxOut())
st_single_pad(h, l) ==
  Mk([h EXCEPT !.txs[l.txtmp].vout = Append(@, CTxOut_default)],
     NextPass(l, l.n, [l EXCEPT !.pc = "single_append"]))

\* line 988: txtmp.vout.append(tmp); line 990 then evaluates
\* range(len(txtmp.vin))
st_single_append(h, l) ==
  LET h1 == [h EXCEPT !.txs[l.txtmp].vout = Append(@, l.tmp.out)]
  IN  Mk(h1, EnterRange(l, Len(h1.txs[l.txtmp].vin), "single_seq",
                        AfterBranch(l)))

\* the pass of lines 991-992 without its test i != inIdx: every input's
\* nSequence is set to 0
seq_pass_every_input(h, l) ==
  LET vin == h.txs[l.txtmp].vin
  IN  IF ~ (l.i < Len(vin)) THEN Mk(h, Raise(l, "IndexError", None))
      ELSE Mk([h EXCEPT !.txins[vin[l.i + 1]].nSequence = 0],
              NextPass(l, l.n, AfterBranch(l)))

st_single_seq(h, l) == seq_pass(h, l)

\* line 995: tmp = txtmp.vin[inIdx]
st_acp_tmp(h, l) ==
  LET vin == h.txs[l.txtmp].vin
  IN  IF ~ (l.inIdx < Len(vin)) THEN Mk(h, Raise(l, "IndexError", None))
      ELSE Mk(h, [l EXCEPT !.tmp = [t |-> "CTxIn", out |-> << >>,
                                    ref |-> vin[l.inIdx + 1]],
                           !.pc = "acp_vin"])

\* line 996: txtmp.vin = []
st_acp_vin(h, l) ==
  Mk([h EXCEPT !.txs[l.txtmp].vin = << >>], [l EXCEPT !.pc = "acp_append"])

\* line 997: txtmp.vin.append(tmp)
st_acp_append(h, l) ==
  Mk([h EXCEPT !.txs[l.txtmp].vin = Append(@, l.tmp.ref)],
     [l EXCEPT !.pc = "wit"])

\* line 999: txtmp.wit = CTxWitness()
st_wit(h, l) ==
  Mk([h EXCEPT !.txs[l.txtmp].wit = CTxWitness_empty],
     [l EXCEPT !.pc = "serialize"])

\* lines 1000-1005: return (Hash(txtmp.serialize() + pack(hashtype)), None)
st_serialize(h, l) ==
  Mk(h, RawReturn(l, Hash(serialize(h, l.txtmp, l.hashtype)), None))

\* SignatureHash, lines 1062-1065: if err is not None: raise
\* ValueError(err); return h
st_sh_err(h, l) ==
  IF l.raw.err # None THEN Mk(h, Raise(l, "ValueError", l.raw.err))
  ELSE Mk(h, [l EXCEPT !.result = [kind |-> "return", hash |-> l.raw.hash,
                                   err |-> None, exc |-> "none"],
                       !.pc = "done"])

\* the statement the computation is at
Statement(h, l) ==
  CASE l.pc = "assert" -> st_assert(h, l)
    [] l.pc = "inIdx" -> st_inIdx(h, l)
    [] l.pc = "from_tx" -> st_from_tx(h, l)
    [] l.pc = "clear" -> st_clear(h, l)
    [] l.pc = "scriptSig" -> st_scriptSig(h, l)
    [] l.pc = "none_vout" -> st_none_vout(h, l)
    [] l.pc = "none_seq" -> st_none_seq(h, l)
    [] l.pc = "single_outIdx" -> st_single_outIdx(h, l)
    [] l.pc = "single_tmp" -> st_single_tmp(h, l)
    [] l.pc = "single_vout" -> st_single_vout(h, l)
    [] l.pc = "single_pad" -> st_single_pad(h, l)
    [] l.pc = "single_append" -> st_single_append(h, l)
    [] l.pc = "single_seq" -> st_single_seq(h, l)
    [] l.pc = "acp_tmp" -> st_acp_tmp(h, l)
    [] l.pc = "acp_vin" -> st_acp_vin(h, l)
    [] l.pc = "acp_append" -> st_acp_append(h, l)
    [] l.pc = "wit" -> st_wit(h, l)
    [] l.pc = "serialize" -> st_serialize(h, l)
    [] l.pc = "sh_err" -> st_sh_err(h, l)

(***************************************************************************)
(* SignatureHash with sigversion = SIGVERSION_WITNESS_V0 (lines 1020-1058), *)
(* one statement per step.  The function reads the caller's transaction    *)
(* and writes only its own locals.                                         *)
(***************************************************************************)
SIGVERSION_BASE == 0

SIGVERSION_WITNESS_V0 == 1

\* b'\x00' * 32: bytes given as such, where Hash(s) stands for the digest
\* of s
ZeroHash == [kind |-> "bytes", of |-> [k \in 1..32 |-> 0]]

\* i.prevout.serialize(), o.serialize(): the bytes are stood for by what
\* they are the encoding of
prevout_serialize(prevout) == [outpoint |-> prevout]

txout_serialize(o) == [txout |-> o]

\* serialize_prevouts after the passes over txTo.vin[1..k]
RECURSIVE serialize_prevouts(_, _)
serialize_prevouts(h, k) ==
  IF k = 0 THEN << >>
  ELSE Append(serialize_prevouts(h, k - 1),
              prevout_serialize(h.txins[h.txs[TxTo].vin[k]].prevout))

\* serialize_sequence after the passes over txTo.vin[1..k]
RECURSIVE serialize_sequence(_, _)
serialize_sequence(h, k) ==
  IF k = 0 THEN << >>
  ELSE serialize_sequence(h, k - 1)
         \o pack_I(h.txins[h.txs[TxTo].vin[k]].nSequence)

\* serialize_outputs after the passes over txTo.vout[1..k]
RECURSIVE serialize_outputs(_, _)
serialize_outputs(h, k) ==
  IF k = 0 THEN << >>
  ELSE Append(serialize_outputs(h, k - 1), txout_serialize(h.txs[TxTo].vout[k]))

\* the base type is neither SIGHASH_SINGLE nor SIGHASH_NONE
not_single_not_none(hashtype) ==
  /\ HashtypeBase(hashtype) # SIGHASH_SINGLE
  /\ HashtypeBase(hashtype) # SIGHASH_NONE

\* the condition on hashSequence without its test for SIGHASH_NONE
hashes_sequence_none_too(hashtype) ==
  /\ ~ HasAnyoneCanPay(hashtype)
  /\ HashtypeBase(hashtype) # SIGHASH_SINGLE

\* line 1031
hashes_sequence(hashtype) ==
  /\ ~ HasAnyoneCanPay(hashtype)
  /\ not_single_not_none(hashtype)

\* lines 1021-1023
st_w_zeros(h, l) ==
  [l EXCEPT !.hashPrevouts = ZeroHash, !.hashSequence = ZeroHash,
            !.hashOutputs = ZeroHash, !.pc = "w_prevouts"]

\* lines 1025-1029
st_w_prevouts(h, l) ==
  IF ~ HasAnyoneCanPay(l.hashtype)
  THEN [l EXCEPT !.hashPrevouts =
                   Hash(serialize_prevouts(h, Len(h.txs[TxTo].vin))),
                 !.pc = "w_sequence"]
  ELSE [l EXCEPT !.pc = "w_sequence"]

\* lines 1031-1035
st_w_sequence(h, l) ==
  IF hashes_sequence(l.hashtype)
  THEN [l EXCEPT !.hashSequence =
                   Hash(serialize_sequence(h, Len(h.txs[TxTo].vin))),
                 !.pc = "w_outputs"]
  ELSE [l EXCEPT !.pc = "w_outputs"]

\* lines 1037-1044 without the elif for SIGHASH_SINGLE
st_w_outputs_no_single(h, l) ==
  IF not_single_not_none(l.hashtype)
  THEN [l EXCEPT !.hashOutputs =
                   Hash(serialize_outputs(h, Len(h.txs[TxTo].vout))),
                 !.pc = "w_digest"]
  ELSE [l EXCEPT !.pc = "w_digest"]

\* lines 1037-1044; inIdx counts from 0
st_w_outputs(h, l) ==
  IF not_single_not_none(l.hashtype)
  THEN [l EXCEPT !.hashOutputs =
                   Hash(serialize_outputs(h, Len(h.txs[TxTo].vout))),
                 !.pc = "w_digest"]
  ELSE IF HashtypeBase(l.hashtype) = SIGHASH_SINGLE
            /\ l.inIdx < Len(h.txs[TxTo].vout)
  THEN [l EXCEPT !.hashOutputs =
                   Hash(<< txout_serialize(h.txs[TxTo].vout[l.inIdx + 1]) >>),
                 !.pc = "w_digest"]
  ELSE [l EXCEPT !.pc = "w_digest"]

\* lines 1046-1058: txTo.vin[inIdx] raises IndexError past the inputs, and
\* struct.pack("<q", amount) raises struct.error when amount is None
st_w_digest(h, l) ==
  IF ~ (l.inIdx < Len(h.txs[TxTo].vin)) THEN Raise(l, "IndexError", None)
  ELSE IF ~ l.amountGiven THEN Raise(l, "struct.error", None)
  ELSE LET txin == h.txins[h.txs[TxTo].vin[l.inIdx + 1]]
           f == [nVersion |-> h.txs[TxTo].nVersion,
                 hashPrevouts |-> l.hashPrevouts,
                 hashSequence |-> l.hashSequence,
                 prevout |-> txin.prevout,
                 script |-> l.script,
                 amount |-> l.amount,
                 nSequence |-> txin.nSequence,
                 hashOutputs |-> l.hashOutputs,
                 nLockTime |-> h.txs[TxTo].nLockTime,
                 hashtype |-> l.hashtype]
       IN  [l EXCEPT !.result = [kind |-> "return", hash |-> Hash(f),
                                 err |-> None, exc |-> "none"],
                     !.pc = "done"]

\* the locals of SignatureHash(script, txTo, inIdx, hashtype, amount,
\* SIGVERSION_WITNESS_V0) when it is called; amount is None unless given
WitnessLocals(t, script, inIdx, hashtype, amountGiven, amount) ==
  [t |-> t, pc |-> "w_zeros", api |-> "cooked",
   sigversion |-> SIGVERSION_WITNESS_V0, script |-> script, inIdx |-> inIdx,
   hashtype |-> hashtype, amountGiven |-> amountGiven, amount |-> amount,
   hashPrevouts |-> << >>, hashSequence |-> << >>, hashOutputs |-> << >>,
   result |-> NoResult]

\* the locals of computation t when it is called
Locals(t, api, script, inIdx, hashtype) ==
  [t |-> t, pc |-> IF api = "cooked" THEN "assert" ELSE "inIdx", api |-> api,
   script |-> script, inIdx |-> inIdx, hashtype |-> hashtype, txtmp |-> -1,
   outIdx |-> -1, tmp |-> Unbound, i |-> 0, n |-> 0, iter |-> << >>,
   raw |-> NoResult, result |-> NoResult]

\* the computation run from (h, l) to its end with nothing running beside it
RECURSIVE Run(_, _)
Run(h, l) ==
  IF l.pc = "done" THEN Mk(h, l)
  ELSE LET s == Statement(h, l) IN Run(s.h, s.l)

(***************************************************************************)
(* State.                                                                  *)
(*   self, i, yielded, iterState, errData, raised, pushed: one run of the  *)
(*     raw_iter generator over the script self; i is its offset, yielded   *)
(*     the triples it has produced, iterState its position ("running",     *)
(*     "done" after StopIteration, "invalid" or "truncated" after a raise),*)
(*     errData the data attribute of the error raised, raised the number   *)
(*     of errors raised, pushed the payload self was encoded from.         *)
(*   call, ret: one call of a function of the module that runs to its end  *)
(*     in a single step: call names the function and its arguments         *)
(*     ("idle" between calls), ret is what it returned or raised.          *)
(*   heap, heap0, th: the signature-hash computations.  heap is the heap   *)
(*     of transactions and inputs, heap0 the heap as it was when the       *)
(*     computations were called, th[t] the locals of computation t.        *)
(***************************************************************************)
VARIABLES self, i, yielded, iterState, errData, raised, pushed, call, ret,
          heap, heap0, th

iterVars == << self, i, yielded, iterState, errData, raised, pushed >>

callVars == << call, ret >>

sigVars == << heap, heap0, th >>

vars == << self, i, yielded, iterState, errData, raised, pushed, call, ret,
          heap, heap0, th >>

\* no generator is running
IdleIter ==
  /\ self = << >>
  /\ i = 0
  /\ yielded = << >>
  /\ iterState = "idle"
  /\ errData = << >>
  /\ raised = 0
  /\ pushed = [enc |-> FALSE, d |-> << >>]

Idle == [op |-> "idle"]

\* no call is in progress
IdleCall ==
  /\ call = Idle
  /\ ret = Idle

\* no signature hash is being computed
IdleSig ==
  /\ heap = [txs |-> << >>, txins |-> << >>]
  /\ heap0 = heap
  /\ th = << >>

(***************************************************************************)
(* Inputs.                                                                 *)
(***************************************************************************)
\* the bytes scripts are enumerated over: OP_0, a 1-byte direct push, the
\* three PUSHDATA opcodes and OP_CHECKSIG (an opcode that carries no data)
Alphabet == { 0, 1, 76, 77, 78, 172 }

RECURSIVE SeqsUpTo(_, _)
SeqsUpTo(S, n) ==
  IF n = 0 THEN { << >> }
  ELSE LET shorter == SeqsUpTo(S, n - 1)
       IN  shorter \cup { Append(s, b) : s \in { t \in shorter : Len(t) = n - 1 }, b \in S }

SmallScripts == SeqsUpTo(Alphabet, MaxScriptLen)

\* a payload of len bytes: seed, seed + 1, ..., seed + 6 (mod 256), repeated
Payload(len, seed) == [k \in 1..len |-> (seed + ((k - 1) % 7)) % 256]

\* payload lengths: the short ones and those around 0x4c, 0x100 and 0x10000
PayloadLens ==
  (0..MaxSmallLen)
    \cup { t + dl : t \in { 76, 256, 65536 }, dl \in (0 - MaxDelta)..MaxDelta }

PayloadSeeds == { 0, 5, 16, 17, 76, 171, 255 }

Payloads == { Payload(len, seed) : len \in PayloadLens, seed \in PayloadSeeds }

NoPayload == [enc |-> FALSE, d |-> << >>]

(***************************************************************************)
(* The raw_iter generator, one pass of its loop per step.                  *)
(***************************************************************************)
InitIter ==
  /\ \/ /\ self \in SmallScripts
        /\ pushed = NoPayload
     \/ \E d \in Payloads :
          /\ self = encode_op_pushdata(d)
          /\ pushed = [enc |-> TRUE, d |-> d]
  /\ i = 0
  /\ yielded = << >>
  /\ iterState = "running"
  /\ errData = << >>
  /\ raised = 0
  /\ IdleCall
  /\ IdleSig

\* a pass that yields a triple
RawIterYield ==
  /\ iterState = "running"
  /\ i < Len(self)
  /\ LET out == raw_iter_step(self, i)
     IN  /\ out.kind = "yield"
         /\ yielded' = Append(yielded, Triple(out))
         /\ i' = out.next
  /\ UNCHANGED << self, iterState, errData, raised, pushed, callVars, sigVars >>

\* a pass that raises CScriptInvalidError: the length prefix is missing
RawIterInvalid ==
  /\ iterState = "running"
  /\ i < Len(self)
  /\ LET out == raw_iter_step(self, i)
     IN  /\ out.kind = "invalid"
         /\ iterState' = "invalid"
         /\ i' = out.next
  /\ raised' = raised + 1
  /\ UNCHANGED << self, yielded, errData, pushed, callVars, sigVars >>

\* a pass that raises CScriptTruncatedPushDataError(msg, data)
RawIterTruncated ==
  /\ iterState = "running"
  /\ i < Len(self)
  /\ LET out == raw_iter_step(self, i)
     IN  /\ out.kind = "truncated"
         /\ iterState' = "truncated"
         /\ errData' = out.data
         /\ i' = out.next
  /\ raised' = raised + 1
  /\ UNCHANGED << self, yielded, pushed, callVars, sigVars >>

\* the while condition fails: the generator returns (StopIteration)
RawIterStop ==
  /\ iterState = "running"
  /\ ~ (i < Len(self))
  /\ iterState' = "done"
  /\ UNCHANGED << self, i, yielded, errData, raised, pushed, callVars, sigVars >>

NextIter ==
  \/ RawIterYield
  \/ RawIterInvalid
  \/ RawIterTruncated
  \/ RawIterStop

SpecIter == InitIter /\ [][NextIter]_vars

\* the generator is driven until it returns or raises
SpecIterFair == SpecIter /\ WF_vars(NextIter)


(***************************************************************************)
(* Calls that run to their end in one step.                                *)
(***************************************************************************)
\* a script [OP_m, n pushes of keyLen-byte public keys, OP_n, OP_CHECKMULTISIG];
\* the k-th key is Payload(keyLen, seed + k)
RECURSIVE KeyPushes(_, _, _)
KeyPushes(n, keyLen, seed) ==
  IF n = 0 THEN << >>
  ELSE KeyPushes(n - 1, keyLen, seed) \o encode_op_pushdata(Payload(keyLen, seed + n))

MultisigScript(m, n, keyLen, seed) ==
  << encode_op_n(m) >> \o KeyPushes(n, keyLen, seed)
    \o << encode_op_n(n), OP_CHECKMULTISIG >>

\* short scripts over pushes, OP_1 and the signature-checking opcodes
SigOpScripts == SeqsUpTo({ 0, 1, 81, 172, 174, 175 }, MaxShortScript)

\* script.GetSigOpCount(fAccurate) on a multisig script
CallGetSigOpCountMultisig ==
  /\ call.op = "idle"
  /\ \E m \in 1..16, n \in 1..16, keyLen \in { 33, 65 }, seed \in { 2, 160 },
        fAccurate \in BOOLEAN :
       LET script == MultisigScript(m, n, keyLen, seed)
       IN  /\ call' = [op |-> "GetSigOpCount", form |-> "multisig", m |-> m,
                       n |-> n, script |-> script, fAccurate |-> fAccurate]
           /\ ret' = GetSigOpCount(script, fAccurate)
  /\ UNCHANGED << iterVars, sigVars >>

\* script.GetSigOpCount(fAccurate) on a short script
CallGetSigOpCount ==
  /\ call.op = "idle"
  /\ \E script \in SigOpScripts, fAccurate \in BOOLEAN :
       /\ call' = [op |-> "GetSigOpCount", form |-> "any", m |-> 0, n |-> 0,
                   script |-> script, fAccurate |-> fAccurate]
       /\ ret' = GetSigOpCount(script, fAccurate)
  /\ UNCHANGED << iterVars, sigVars >>

\* the items scripts are built from; a byte sequence is given by its length
\* and seed (see Payload)
OpItem(b) == [t |-> "op", v |-> b, len |-> 0, seed |-> 0]

IntItem(n) == [t |-> "int", v |-> n, len |-> 0, seed |-> 0]

BytesItem(len, seed) == [t |-> "bytes", v |-> 0, len |-> len, seed |-> seed]

BuildItems ==
  { OpItem(b) : b \in { 0, 1, 76, 172 } }
    \cup { IntItem(n) : n \in { -128, -1, 0, 16, 17, 128 } }
    \cup { BytesItem(len, 5) : len \in { 0, 1, 2 } }
    \cup { BytesItem(len, 70) : len \in { 1, 75, 76, 255, 256 } }

\* the Python value an item stands for
ItemValue(it) ==
  IF it.t = "bytes" THEN [t |-> "bytes", v |-> Payload(it.len, it.seed)]
  ELSE [t |-> it.t, v |-> it.v]

ItemValues(items) == [k \in 1..Len(items) |-> ItemValue(items[k])]

RECURSIVE AddAll(_, _)
AddAll(script, items) ==
  IF items = << >> THEN script
  ELSE AddAll(CScript_add(script, Head(items)), Tail(items))

\* CScript(items[:k]) + items[k] + ... , then has_canonical_pushes() on it
CallBuild ==
  /\ call.op = "idle"
  /\ \E n \in 0..MaxItems :
       \E items \in [1..n -> BuildItems], k \in 0..n :
         LET vals   == ItemValues(items)
             script == AddAll(CScript_new(SubSeq(vals, 1, k)),
                              SubSeq(vals, k + 1, Len(vals)))
         IN  /\ call' = [op |-> "CScript", items |-> items, k |-> k]
             /\ ret' = [len |-> Len(script),
                        has_canonical_pushes |->
                          has_canonical_pushes(script) = Returns(TRUE)]
  /\ UNCHANGED << iterVars, sigVars >>

\* OPCODE_NAMES[b], then OPCODES_BY_NAME[that name]
CallOpcodeName ==
  /\ call.op = "idle"
  /\ \E b \in 0..255 :
       LET named == DictHas(OPCODE_NAMES_items, b)
           name  == IF named THEN DictGet(OPCODE_NAMES_items, b) ELSE ""
           back  == named /\ DictHas(OPCODES_BY_NAME_items, name)
       IN  /\ call' = [op |-> "OPCODE_NAMES", b |-> b]
           /\ ret' = [named |-> named, name |-> name, byName |-> back,
                      opcode |-> IF back THEN DictGet(OPCODES_BY_NAME_items, name)
                                 ELSE -1]
  /\ UNCHANGED << iterVars, sigVars >>

\* the bytes scripts are iterated over: OP_0, a 1-byte push, OP_PUSHDATA1,
\* OP_1NEGATE, OP_RESERVED, OP_1, OP_16, OP_NOP and OP_INVALIDOPCODE
IterAlphabet == { 0, 1, 76, 79, 80, 81, 96, 97, 255 }

IterScripts == SeqsUpTo(IterAlphabet, MaxShortScript)

\* list(script), which runs CScript.__iter__ to its end
CallIter ==
  /\ call.op = "idle"
  /\ \E script \in IterScripts :
       /\ call' = [op |-> "__iter__", script |-> script]
       /\ ret' = list_self(script)
  /\ UNCHANGED << iterVars, sigVars >>

\* the bytes scripts and needles are made of for FindAndDelete: two 1-byte
\* opcodes (OP_CODESEPARATOR, OP_CHECKSIG) and the direct pushes of 1 and 2
\* bytes
FadAlphabet == { 1, 2, OP_CODESEPARATOR, OP_CHECKSIG }

FadScripts == SeqsUpTo(FadAlphabet, MaxFadLen)

FadNeedles == SeqsUpTo(FadAlphabet, MaxNeedleLen)

\* FindAndDelete(script, sig), then FindAndDelete of the result
CallFindAndDelete ==
  /\ call.op = "idle"
  /\ \E script \in FadScripts, sig \in FadNeedles :
       LET once == FindAndDelete(script, sig)
       IN  /\ call' = [op |-> "FindAndDelete", script |-> script, sig |-> sig]
           /\ ret' = [status |-> once.status, script |-> once.script,
                      twice |-> IF once.status = "return"
                                THEN FindAndDelete(once.script, sig)
                                ELSE once]
  /\ UNCHANGED << iterVars, sigVars >>

\* script.is_valid(), script.is_push_only() and
\* script.has_canonical_pushes() on one script; raw is how raw iteration of
\* the script ends
CallPredicates ==
  /\ call.op = "idle"
  /\ \E script \in SmallScripts :
       /\ call' = [op |-> "predicates", script |-> script]
       /\ ret' = [raw |-> list_self(script).status,
                  is_valid |-> is_valid(script),
                  is_push_only |-> is_push_only(script),
                  has_canonical_pushes |-> has_canonical_pushes(script)]
  /\ UNCHANGED << iterVars, sigVars >>

\* one push of the payload d written with a chosen opcode: a direct push
\* (pushop = 0, the opcode is the length) or OP_PUSHDATA1 / 2 / 4
PushWith(pushop, d) ==
  IF pushop = 0 THEN << Len(d) >> \o d
  ELSE IF pushop = OP_PUSHDATA1 THEN << OP_PUSHDATA1, Len(d) >> \o d
  ELSE IF pushop = OP_PUSHDATA2 THEN << OP_PUSHDATA2 >> \o pack_H(Len(d)) \o d
  ELSE << OP_PUSHDATA4 >> \o pack_I(Len(d)) \o d

\* the opcodes that can carry a payload of len bytes
PushOpsFor(len) ==
  { OP_PUSHDATA4 }
    \cup (IF len <= 65535 THEN { OP_PUSHDATA2 } ELSE { })
    \cup (IF len <= 255 THEN { OP_PUSHDATA1 } ELSE { })
    \cup (IF 1 <= len /\ len < OP_PUSHDATA1 THEN { 0 } ELSE { })

\* script.has_canonical_pushes() on a script of one push followed by
\* OP_CHECKSIG
CallHasCanonicalPushes ==
  /\ call.op = "idle"
  /\ \E len \in PayloadLens, seed \in PayloadSeeds :
       \E pushop \in PushOpsFor(len) :
         /\ call' = [op |-> "has_canonical_pushes", pushop |-> pushop,
                     len |-> len, seed |-> seed]
         /\ ret' = has_canonical_pushes(PushWith(pushop, Payload(len, seed))
                                          \o << OP_CHECKSIG >>)
  /\ UNCHANGED << iterVars, sigVars >>

\* CScriptOp.encode_op_pushdata(d) on a payload
CallEncodeOpPushdata ==
  /\ call.op = "idle"
  /\ \E len \in PayloadLens, seed \in PayloadSeeds :
       /\ call' = [op |-> "encode_op_pushdata", len |-> len, seed |-> seed]
       /\ ret' = [ok |-> pushdata_prefix(len).ok,
                  bytes |-> encode_op_pushdata(Payload(len, seed))]
  /\ UNCHANGED << iterVars, sigVars >>

\* the halves of the lengths around 0x10000, 0x20000 and 0x100000000
LongLenHi == { 0, 1, 2, 65535, 65536, 65537 }

LongLenLo == { 0, 1, 75, 76, 255, 256, 65535 }

\* the prefix CScriptOp.encode_op_pushdata(d) chooses for a payload of
\* hi * 0x10000 + lo bytes, too long to be written out
CallEncodeOpPushdataLong ==
  /\ call.op = "idle"
  /\ \E hi \in LongLenHi, lo \in LongLenLo :
       /\ call' = [op |-> "encode_op_pushdata_prefix", hi |-> hi, lo |-> lo]
       /\ ret' = pushdata_prefix_limbs(hi, lo)
  /\ UNCHANGED << iterVars, sigVars >>

\* the lengths of the public keys given: key k has the first length when k
\* is odd and the second when k is even (33 and 65 bytes are the lengths of
\* compressed and uncompressed keys)
KeyLens == { << 33, 33 >>, << 65, 65 >>, << 33, 65 >>, << 1, 33 >>, << 0, 1 >> }

\* n keys, all different: key k is Payload(its length, seed + k)
Pubkeys(n, lens, seed) ==
  [k \in 1..n |-> Payload(lens[2 - (k % 2)], seed + k)]

\* CreateMultisigRedeemScript(required, pubkeys)
CallCreateMultisigRedeemScript ==
  /\ call.op = "idle"
  /\ \E required \in (-1)..(MaxKeys + 1), n \in 0..MaxKeys, lens \in KeyLens,
        seed \in { 2, 160 } :
       LET pubkeys == Pubkeys(n, lens, seed)
       IN  /\ call' = [op |-> "CreateMultisigRedeemScript",
                       required |-> required, pubkeys |-> pubkeys]
           /\ ret' = CreateMultisigRedeemScript(required, pubkeys)
  /\ UNCHANGED << iterVars, sigVars >>

\* the lengths of the redeem scripts wrapped: short ones and those around
\* MAX_SCRIPT_ELEMENT_SIZE
RedeemLens ==
  (0..MaxSmallLen)
    \cup { MAX_SCRIPT_ELEMENT_SIZE + dl : dl \in (0 - MaxDelta)..(MaxDelta + 1) }

\* redeem.to_p2sh_scriptPubKey(checksize); the redeem script's bytes are not
\* parsed, so any bytes of that length will do
CallToP2SH ==
  /\ call.op = "idle"
  /\ \E len \in RedeemLens, seed \in PayloadSeeds, checksize \in BOOLEAN :
       LET redeem == Payload(len, seed)
       IN  /\ call' = [op |-> "to_p2sh_scriptPubKey", redeem |-> redeem,
                       checksize |-> checksize]
           /\ ret' = to_p2sh_scriptPubKey(redeem, checksize)
  /\ UNCHANGED << iterVars, sigVars >>

\* scripts of the lengths of the two witness v0 templates and next to them,
\* with the templates' first two bytes and others
TemplateLens ==
  { t + dl : t \in { 22, 34 }, dl \in (0 - MaxDelta)..MaxDelta }

TemplateHeads ==
  { << b0, b1 >> : b0 \in { OP_0, OP_1, OP_16, 1 }, b1 \in { 19, 20, 21, 32, 33 } }

\* the template predicates and witness_version on one script
CallWitnessTemplates ==
  /\ call.op = "idle"
  /\ \E head \in TemplateHeads, len \in TemplateLens, seed \in { 0, 171 } :
       LET script == head \o Payload(len - 2, seed)
       IN  /\ call' = [op |-> "witness_templates", script |-> script]
           /\ ret' = [is_witness_v0_keyhash |-> is_witness_v0_keyhash(script),
                      is_witness_v0_scripthash |->
                        is_witness_v0_scripthash(script),
                      is_witness_scriptpubkey |-> is_witness_scriptpubkey(script),
                      witness_version |-> witness_version(script)]
  /\ UNCHANGED << iterVars, sigVars >>

\* redeem.to_p2sh_scriptPubKey(checksize) and, when it returns, is_p2sh(),
\* is_valid() and is_push_only() on the script returned
CallP2SHRecognizers ==
  /\ call.op = "idle"
  /\ \E len \in RedeemLens, seed \in PayloadSeeds, checksize \in BOOLEAN :
       LET redeem == Payload(len, seed)
           built == to_p2sh_scriptPubKey(redeem, checksize)
       IN  /\ call' = [op |-> "p2sh_recognizers", redeem |-> redeem,
                       checksize |-> checksize]
           /\ ret' = IF built.status # "return"
                     THEN [built |-> built, is_p2sh |-> FALSE,
                           is_valid |-> Returns(FALSE),
                           is_push_only |-> Returns(FALSE)]
                     ELSE [built |-> built, is_p2sh |-> is_p2sh(built.value),
                           is_valid |-> is_valid(built.value),
                           is_push_only |-> is_push_only(built.value)]
  /\ UNCHANGED << iterVars, sigVars >>

\* the caller takes the result
Return ==
  /\ call.op # "idle"
  /\ call' = Idle
  /\ ret' = Idle
  /\ UNCHANGED << iterVars, sigVars >>

Init ==
  /\ IdleIter
  /\ IdleCall
  /\ IdleSig

Next ==
  \/ CallGetSigOpCountMultisig
  \/ CallCreateMultisigRedeemScript
  \/ CallToP2SH
  \/ CallP2SHRecognizers
  \/ CallWitnessTemplates
  \/ CallIter
  \/ CallFindAndDelete
  \/ CallPredicates
  \/ CallHasCanonicalPushes
  \/ CallEncodeOpPushdata
  \/ CallEncodeOpPushdataLong
  \/ CallGetSigOpCount
  \/ CallBuild
  \/ CallOpcodeName
  \/ Return

Spec == Init /\ [][Next]_vars

(***************************************************************************)
(* Signature-hash computations, one statement per step.                    *)
(***************************************************************************)
\* the scripts signed: empty, one with an OP_CODESEPARATOR to delete, a
\* witness program (OP_0 and a 2-byte push), and two on which raw_iter
\* raises (a PUSHDATA1 without its length byte, a push without its data)
SigScripts ==
  { << >>,
    << OP_CODESEPARATOR, OP_CHECKSIG >>,
    << OP_0, 2, OP_CODESEPARATOR, OP_CODESEPARATOR >>,
    << OP_PUSHDATA1 >>,
    << OP_CHECKSIG, 1 >> }

\* the base types with and without SIGHASH_ANYONECANPAY, 0, and
\* SIGHASH_SINGLE with a bit outside the 0x1f mask
Hashtypes ==
  { 0, SIGHASH_ALL, SIGHASH_NONE, SIGHASH_SINGLE,
    SIGHASH_ANYONECANPAY + SIGHASH_ALL, SIGHASH_ANYONECANPAY + SIGHASH_NONE,
    SIGHASH_ANYONECANPAY + SIGHASH_SINGLE, 32 + SIGHASH_SINGLE }

\* the witnesses of the caller's transaction: none, and one stack item
Witnesses == { << >>, << << 1 >> >> }

\* the heap holding the caller's transaction alone
CallerHeap(nvin, nvout, wit) ==
  [txs |-> TxTo :> [nVersion |-> 2,
                    vin |-> [k \in 1..nvin |-> << TxTo, k >>],
                    vout |-> [k \in 1..nvout |->
                                [nValue |-> 1000 * k,
                                 scriptPubKey |-> << OP_1, OP_CHECKSIG >>]],
                    nLockTime |-> 0,
                    wit |-> wit],
   txins |-> [r \in { << TxTo, k >> : k \in 1..nvin } |->
                [prevout |-> [hash |-> r[2], n |-> 0],
                 scriptSig |-> << OP_1, r[2] >>,
                 nSequence |-> 65535 - r[2]]]]

\* computations T are called on one transaction, each with its arguments
InitSig(T, apis, scripts, hashtypes, wits) ==
  /\ \E nvin \in 0..MaxVin, nvout \in 0..MaxVout, wit \in wits :
       heap = CallerHeap(nvin, nvout, wit)
  /\ heap0 = heap
  /\ \E args \in [T -> [api : apis, script : scripts, inIdx : 0..MaxVin,
                        hashtype : hashtypes]] :
       th = [t \in T |-> Locals(t, args[t].api, args[t].script, args[t].inIdx,
                                args[t].hashtype)]
  /\ IdleIter
  /\ IdleCall

\* computation t executes the statement it is at, which is pc
Step(t, pc) ==
  /\ th[t].pc = pc
  /\ LET s == Statement(heap, th[t])
     IN  /\ heap' = s.h
         /\ th' = [th EXCEPT ![t] = s.l]
  /\ UNCHANGED << heap0, iterVars, callVars >>

SH_assert == \E t \in DOMAIN th : Step(t, "assert")

RSH_inIdx == \E t \in DOMAIN th : Step(t, "inIdx")

RSH_from_tx == \E t \in DOMAIN th : Step(t, "from_tx")

RSH_clear == \E t \in DOMAIN th : Step(t, "clear")

RSH_scriptSig == \E t \in DOMAIN th : Step(t, "scriptSig")

RSH_none_vout == \E t \in DOMAIN th : Step(t, "none_vout")

RSH_none_seq == \E t \in DOMAIN th : Step(t, "none_seq")

RSH_single_outIdx == \E t \in DOMAIN th : Step(t, "single_outIdx")

RSH_single_tmp == \E t \in DOMAIN th : Step(t, "single_tmp")

RSH_single_vout == \E t \in DOMAIN th : Step(t, "single_vout")

RSH_single_pad == \E t \in DOMAIN th : Step(t, "single_pad")

RSH_single_append == \E t \in DOMAIN th : Step(t, "single_append")

RSH_single_seq == \E t \in DOMAIN th : Step(t, "single_seq")

RSH_acp_tmp == \E t \in DOMAIN th : Step(t, "acp_tmp")

RSH_acp_vin == \E t \in DOMAIN th : Step(t, "acp_vin")

RSH_acp_append == \E t \in DOMAIN th : Step(t, "acp_append")

RSH_wit == \E t \in DOMAIN th : Step(t, "wit")

RSH_serialize == \E t \in DOMAIN th : Step(t, "serialize")

SH_err == \E t \in DOMAIN th : Step(t, "sh_err")

\* the statements of RawSignatureHash
NextRaw ==
  \/ RSH_inIdx
  \/ RSH_from_tx
  \/ RSH_clear
  \/ RSH_scriptSig
  \/ RSH_none_vout
  \/ RSH_none_seq
  \/ RSH_single_outIdx
  \/ RSH_single_tmp
  \/ RSH_single_vout
  \/ RSH_single_pad
  \/ RSH_single_append
  \/ RSH_single_seq
  \/ RSH_acp_tmp
  \/ RSH_acp_vin
  \/ RSH_acp_append
  \/ RSH_wit
  \/ RSH_serialize

\* one call of RawSignatureHash or of SignatureHash
InitOne == InitSig({ 1 }, { "raw", "cooked" }, SigScripts, Hashtypes, Witnesses)

NextSig ==
  \/ SH_assert
  \/ NextRaw
  \/ SH_err

SpecSig == InitOne /\ [][NextSig]_vars

\* two calls of RawSignatureHash on the same transaction object, their
\* statements interleaved in every order
InitPair ==
  InitSig({ 1, 2 }, { "raw" }, { << OP_CODESEPARATOR, OP_CHECKSIG >> },
          Hashtypes, { << << 1 >> >> })

SpecPair == InitPair /\ [][NextRaw]_vars

\* one call of SignatureHash with sigversion = SIGVERSION_WITNESS_V0, given
\* an amount or none
InitWitness ==
  /\ \E nvin \in 0..MaxVin, nvout \in 0..MaxVout, wit \in Witnesses :
       heap = CallerHeap(nvin, nvout, wit)
  /\ heap0 = heap
  /\ \E script \in SigScripts, inIdx \in 0..MaxVin, hashtype \in Hashtypes,
        amountGiven \in BOOLEAN :
       th = [t \in { 1 } |->
               WitnessLocals(t, script, inIdx, hashtype, amountGiven,
                             IF amountGiven THEN 5000 ELSE 0)]
  /\ IdleIter
  /\ IdleCall

\* the call executes the statement it is at; the transaction is only read
StepWitness(pc, l) ==
  /\ th[1].pc = pc
  /\ th' = [th EXCEPT ![1] = l]
  /\ UNCHANGED << heap, heap0, iterVars, callVars >>

SHW_zeros == StepWitness("w_zeros", st_w_zeros(heap, th[1]))

SHW_prevouts == StepWitness("w_prevouts", st_w_prevouts(heap, th[1]))

SHW_sequence == StepWitness("w_sequence", st_w_sequence(heap, th[1]))

SHW_outputs == StepWitness("w_outputs", st_w_outputs(heap, th[1]))

SHW_digest == StepWitness("w_digest", st_w_digest(heap, th[1]))

NextWitness ==
  \/ SHW_zeros
  \/ SHW_prevouts
  \/ SHW_sequence
  \/ SHW_outputs
  \/ SHW_digest

SpecWitness == InitWitness /\ [][NextWitness]_vars

(***************************************************************************)
(* Properties of the decoder (checked under SpecIter / SpecIterFair).      *)
(***************************************************************************)
\* the offset at which a yielded operation ends
OpEnd(op) ==
  op.sop_idx + 1 + (IF op.hasData THEN length_bytes(op.opcode) + Len(op.data) ELSE 0)

\* the offset of the operation the generator is at: where the last yielded
\* operation ended
OpStart == IF yielded = << >> THEN 0 ELSE OpEnd(yielded[Len(yielded)])

\* C8: raw iteration over encode_op_pushdata(d) yields exactly one operation,
\* at offset 0, whose data is d, and then completes without error.
C8_PushRoundTrip ==
  pushed.enc =>
    /\ iterState \in { "running", "done" }
    /\ raised = 0
    /\ Len(yielded) <= 1
    /\ (iterState = "done" => Len(yielded) = 1)
    /\ (Len(yielded) = 1 =>
          /\ yielded[1].hasData
          /\ yielded[1].data = pushed.d
          /\ yielded[1].sop_idx = 0
          /\ i = Len(self))

\* C8 witness: a payload of 0x100 bytes or more (OP_PUSHDATA2) came back
C8_Witness ==
  /\ pushed.enc
  /\ iterState = "done"
  /\ Len(pushed.d) >= 256
  /\ self[1] = OP_PUSHDATA2
  /\ yielded[1].data = pushed.d

\* C9: raw iteration terminates; every pass before the end yields one
\* operation and moves the offset forward inside the script; the end is either
\* a normal return with no error raised or exactly one error, and nothing is
\* yielded or raised after the end.
C9_DecoderTotality ==
  /\ <>(iterState \in { "done", "invalid", "truncated" })
  /\ [][ /\ iterState = "running"
         /\ iterState' = "running" =>
              /\ i' > i
              /\ i' <= Len(self)
              /\ Len(yielded') = Len(yielded) + 1
              /\ raised' = raised
         /\ iterState' \in { "invalid", "truncated" } =>
              /\ raised = 0
              /\ raised' = 1
              /\ yielded' = yielded
         /\ iterState' = "done" =>
              /\ raised' = 0
              /\ yielded' = yielded
         /\ iterState' \in { "running", "done", "invalid", "truncated" }
       ]_vars

\* C9 witness: an error was raised after some operations had been yielded
C9_Witness ==
  /\ iterState \in { "invalid", "truncated" }
  /\ raised = 1
  /\ Len(yielded) >= 2

\* C10 as stated: every error raw iteration raises, for a length prefix or a
\* payload cut short, is CScriptTruncatedPushDataError carrying the bytes read.
C10_Original ==
  raised > 0 =>
    /\ iterState = "truncated"
    /\ errData = Slice(self, OpStart + 1, Len(self))

\* C10 amended: a push whose payload is cut short raises
\* CScriptTruncatedPushDataError carrying the payload bytes present (all that
\* follows the length prefix); an OP_PUSHDATA1/2/4 whose length prefix is cut
\* short raises plain CScriptInvalidError, which carries no data; and no other
\* operation raises.
C10_TruncationReporting ==
  /\ raised > 0 =>
       LET op   == At(self, OpStart)
           rest == Len(self) - (OpStart + 1)
       IN  /\ op <= OP_PUSHDATA4
           /\ iterState \in { "invalid", "truncated" }
           /\ (iterState = "invalid") = (rest < length_bytes(op))
           /\ iterState = "invalid" => errData = << >>
           /\ iterState = "truncated" =>
                /\ errData = Slice(self, OpStart + 1 + length_bytes(op), Len(self))
                /\ Len(errData) = rest - length_bytes(op)
  /\ iterState = "done" => raised = 0 /\ OpStart = Len(self)

\* C10 witness: an OP_PUSHDATA2 payload cut short, some of its bytes present
C10_Witness ==
  /\ iterState = "truncated"
  /\ errData # << >>
  /\ At(self, OpStart) = OP_PUSHDATA2


(***************************************************************************)
(* Properties of the calls (checked under Spec).                           *)
(***************************************************************************)
\* C5: on a script [OP_m, n pubkey pushes, OP_n, OP_CHECKMULTISIG] with
\* 1 <= n <= 16, GetSigOpCount(true) returns n and GetSigOpCount(false)
\* returns 20.
C5_SigOpWeighting ==
  (call.op = "GetSigOpCount" /\ call.form = "multisig") =>
    /\ ret.status = "return"
    /\ ret.n = (IF call.fAccurate THEN call.n ELSE 20)

\* an item the amended C6 admits: an integer, an opcode that is not a push
\* opcode (OP_0, or above OP_PUSHDATA4), a byte sequence other than a single
\* byte of value 16 or less
PlainItem(it) ==
  IF it.t = "op" THEN it.v = OP_0 \/ it.v > OP_PUSHDATA4
  ELSE IF it.t = "bytes" THEN ~ (it.len = 1 /\ Payload(1, it.seed)[1] <= 16)
  ELSE TRUE

\* C6 as stated: every script built from the builder coercions (opcodes,
\* integers, byte sequences, by CScript(...) or +) has canonical pushes.
C6_Original ==
  call.op = "CScript" => ret.has_canonical_pushes

\* C6 amended: every script built by CScript(...) and + from integers, from
\* opcodes that are not push opcodes and from byte sequences other than a
\* single byte of value 16 or less has canonical pushes.
C6_BuiltScriptsCanonical ==
  (call.op = "CScript" /\ \A k \in 1..Len(call.items) : PlainItem(call.items[k]))
    => ret.has_canonical_pushes

\* C6 witness: a canonical script built from an integer pushed as data and a
\* byte sequence long enough for OP_PUSHDATA1, one of them appended with +
C6_Witness ==
  /\ call.op = "CScript"
  /\ \A k \in 1..Len(call.items) : PlainItem(call.items[k])
  /\ \E k \in 1..Len(call.items) :
       call.items[k].t = "int" /\ call.items[k].v > 16
  /\ \E k \in 1..Len(call.items) :
       call.items[k].t = "bytes" /\ call.items[k].len >= 76
  /\ call.k < Len(call.items)
  /\ ret.has_canonical_pushes

\* C7: for every byte b that is a key of OPCODE_NAMES, OPCODES_BY_NAME holds
\* the name OPCODE_NAMES[b] and maps it back to b.
C7_NameBijection ==
  (call.op = "OPCODE_NAMES" /\ ret.named) =>
    /\ ret.byName
    /\ ret.opcode = call.b

(***************************************************************************)
(* Properties of the signature-hash computations.                          *)
(***************************************************************************)
\* the caller's transaction and its inputs are as they were at the call
CallerTxUnchanged ==
  /\ heap.txs[TxTo] = heap0.txs[TxTo]
  /\ \A r \in DOMAIN heap0.txins : heap.txins[r] = heap0.txins[r]

\* the arguments' transaction: its numbers of inputs and outputs
NVin == Len(heap0.txs[TxTo].vin)

NVout == Len(heap0.txs[TxTo].vout)

\* C1: for every script and every transaction with inIdx < len(vin) and
\* inIdx >= len(vout), and a hashtype whose base type is SIGHASH_SINGLE,
\* RawSignatureHash returns the sentinel digest 01 00..00 with a non-empty
\* out-of-range error tag, and SignatureHash (sigversion BASE) raises an
\* error instead of returning a digest.
C1_SingleBugSentinel ==
  \A t \in DOMAIN th :
    LET l == th[t]
    IN  ( /\ l.pc = "done"
          /\ l.inIdx < NVin
          /\ l.inIdx >= NVout
          /\ HashtypeBase(l.hashtype) = SIGHASH_SINGLE )
        => IF l.api = "raw"
           THEN /\ l.result.kind = "return"
                /\ l.result.hash = HASH_ONE
                /\ l.result.err # None
                /\ l.result.err.tag = "outIdx out of range"
           ELSE l.result.kind = "raise"

\* C2: for every hashtype, RawSignatureHash with inIdx >= len(txTo.vin)
\* returns the sentinel digest and the error tag reporting inIdx out of
\* range; the check precedes every other step (nothing has been copied,
\* assigned or parsed), so that tag is returned even when the hashtype is
\* SIGHASH_SINGLE and inIdx >= len(txTo.vout).
C2_InIdxCheckedFirst ==
  \A t \in DOMAIN th :
    LET l == th[t]
    IN  (l.api = "raw" /\ l.pc = "done" /\ l.inIdx >= NVin)
        => /\ l.result = [kind |-> "return", hash |-> HASH_ONE,
                          err |-> ErrTag("inIdx out of range", l.inIdx, NVin),
                          exc |-> "none"]
           /\ heap = heap0
           /\ l.txtmp = -1
           /\ l.tmp = Unbound

C2_Witness ==
  /\ DOMAIN th = { 1 }
  /\ th[1].api = "raw"
  /\ th[1].pc = "done"
  /\ th[1].inIdx >= NVin
  /\ th[1].inIdx >= NVout
  /\ HashtypeBase(th[1].hashtype) = SIGHASH_SINGLE
  /\ th[1].script = << OP_PUSHDATA1 >>
  /\ th[1].result.hash = HASH_ONE
  /\ th[1].result.err.tag = "inIdx out of range"

\* C3: after RawSignatureHash returns (a digest or the sentinel), for every
\* hashtype and every inIdx, the caller's txTo has the same vin list (each
\* input's scriptSig and nSequence), the same vout list and the same
\* witness as before the call.
C3_CallerTxUndisturbed ==
  \A t \in DOMAIN th :
    th[t].raw.kind = "return" => CallerTxUnchanged

\* a digest was returned for SIGHASH_ANYONECANPAY | SIGHASH_NONE on a
\* transaction with two inputs, two outputs and a witness: the copy lost
\* an input, its outputs and its witness, and had its scriptSigs rewritten
C3_Witness ==
  /\ DOMAIN th = { 1 }
  /\ th[1].pc = "done"
  /\ th[1].raw.kind = "return"
  /\ th[1].raw.err = None
  /\ th[1].hashtype = SIGHASH_ANYONECANPAY + SIGHASH_NONE
  /\ NVin = 2
  /\ NVout = 2
  /\ heap0.txs[TxTo].wit # CTxWitness_empty
  /\ Len(heap.txs[th[1].txtmp].vin) = 1
  /\ heap.txs[th[1].txtmp].vout = << >>
  /\ heap.txs[th[1].txtmp].wit = CTxWitness_empty
  /\ \A k \in 1..NVin :
       heap.txins[<< th[1].txtmp, k >>].scriptSig
         # heap0.txins[<< TxTo, k >>].scriptSig

\* what computation t returns when it runs alone on the transaction
AloneResult(t) ==
  Run(heap0, Locals(t, th[t].api, th[t].script, th[t].inIdx,
                    th[t].hashtype)).l.result

\* C4: two legacy signature-hash computations running concurrently against
\* the same transaction object, under every interleaving of their steps and
\* for any pair of (inIdx, hashtype) arguments, each return exactly the
\* result they return when run alone, and the shared transaction is
\* unchanged at every point.
C4_ConcurrentSignatureHash ==
  /\ CallerTxUnchanged
  /\ \A t \in DOMAIN th :
       th[t].pc = "done" => th[t].result = AloneResult(t)

\* both computations have returned a digest, for different inputs and
\* different hashtypes
C4_Witness ==
  /\ DOMAIN th = { 1, 2 }
  /\ \A t \in { 1, 2 } :
       /\ th[t].pc = "done"
       /\ th[t].result.kind = "return"
       /\ th[t].result.err = None
       /\ th[t].result = AloneResult(t)
  /\ th[1].inIdx # th[2].inIdx
  /\ th[1].hashtype # th[2].hashtype
  /\ th[1].result # th[2].result

(***************************************************************************)
(* Properties of cooked iteration.                                         *)
(***************************************************************************)
\* every raw operation has its cooked value: 0 for OP_0, the data for a
\* push, 1..16 for OP_1..OP_16, neg for OP_1NEGATE, the opcode otherwise
CookedMapping(neg) ==
  (call.op = "__iter__" /\ ret.status = "return") =>
    /\ Len(ret.values) = Len(ret.raw)
    /\ \A k \in 1..Len(ret.raw) :
         LET r == ret.raw[k]
             c == ret.values[k]
         IN  IF r.opcode = OP_0 THEN c = Cooked("int", 0, << >>)
             ELSE IF 1 <= r.opcode /\ r.opcode <= OP_PUSHDATA4
             THEN c = Cooked("bytes", 0, r.data)
             ELSE IF OP_1 <= r.opcode /\ r.opcode <= OP_16
             THEN c = Cooked("int", r.opcode - OP_1 + 1, << >>)
             ELSE IF r.opcode = OP_1NEGATE THEN c = neg
             ELSE c = Cooked("op", r.opcode, << >>)

\* C11 as stated: cooked iteration yields integer 0 for OP_0, the pushed
\* byte string for every push opcode 0x01..0x4E, the decoded integer for
\* OP_1..OP_16 (1..16) and for OP_1NEGATE (-1), and the opcode itself for
\* every other byte.
C11_Original == CookedMapping(Cooked("int", -1, << >>))

\* C11 amended: cooked iteration yields integer 0 for OP_0, the pushed byte
\* string for every push opcode 0x01..0x4E, the decoded integer for
\* OP_1..OP_16 (1..16), and the opcode itself for every other byte,
\* OP_1NEGATE included.
C11_CookedIteration == CookedMapping(Cooked("op", OP_1NEGATE, << >>))

\* a script with a push and OP_1NEGATE has been iterated
C11_Witness ==
  /\ call.op = "__iter__"
  /\ ret.status = "return"
  /\ \E k \in 1..Len(ret.raw) :
       ret.raw[k].opcode = OP_1NEGATE /\ ret.values[k].t = "op"
  /\ \E k \in 1..Len(ret.raw) :
       ret.raw[k].opcode = 1 /\ ret.values[k] = Cooked("bytes", 0, << OP_1NEGATE >>)

(***************************************************************************)
(* Properties of FindAndDelete.                                            *)
(***************************************************************************)
\* the start offsets of the operations of a script raw_iter goes through
OpStarts(script) ==
  LET raw == list_self(script).raw
  IN  { raw[k].sop_idx : k \in 1..Len(raw) }

\* the needle is found at the start of some operation of the script
Aligned(script, sig) ==
  \E k \in OpStarts(script) : Slice(script, k, k + Len(sig)) = sig

\* the needle is one complete operation
SingleOp(sig) ==
  /\ list_self(sig).status = "return"
  /\ Len(list_self(sig).raw) = 1

\* R = FindAndDelete(S, sig) has the needle at no operation boundary, and
\* FindAndDelete(R, sig) is R
NothingLeft ==
  /\ ~ Aligned(ret.script, call.sig)
  /\ ret.twice = [status |-> "return", script |-> ret.script]

\* C12 as stated: for every script S on which raw iteration completes and
\* every non-empty needle sig, R = FindAndDelete(S, sig) has no operation
\* boundary k with R[k : k+len(sig)] == sig (hence FindAndDelete(R, sig) == R).
C12_Original ==
  (call.op = "FindAndDelete" /\ ret.status = "return" /\ call.sig # << >>)
    => NothingLeft

\* C12 amended: the same, for every needle that is one complete operation
\* (a single opcode, or a push with all of its data).
C12_AlignedOccurrencesRemoved ==
  ( /\ call.op = "FindAndDelete"
    /\ ret.status = "return"
    /\ call.sig # << >>
    /\ SingleOp(call.sig) )
    => NothingLeft

\* a push of one byte was deleted from a script, and something is left
C12_Witness ==
  /\ call.op = "FindAndDelete"
  /\ ret.status = "return"
  /\ SingleOp(call.sig)
  /\ Len(call.sig) = 2
  /\ Aligned(call.script, call.sig)
  /\ ret.script # << >>
  /\ ret.script # call.script

\* C13: for every script S on which raw iteration completes and every
\* needle that matches S[k : k+len(needle)] at no operation start offset k
\* of S, FindAndDelete(S, needle) returns a script byte-for-byte equal to S
\* (including when the needle occurs only inside push data).
C13_IdentityOnMismatch ==
  ( /\ call.op = "FindAndDelete"
    /\ ret.status = "return"
    /\ ~ Aligned(call.script, call.sig) )
    => ret.script = call.script

\* the needle occurs in the script, inside push data only
C13_Witness ==
  /\ call.op = "FindAndDelete"
  /\ ret.status = "return"
  /\ call.sig # << >>
  /\ ~ Aligned(call.script, call.sig)
  /\ \E k \in 0..Len(call.script) :
       Slice(call.script, k, k + Len(call.sig)) = call.sig
  /\ \E k \in 1..Len(list_self(call.script).raw) :
       list_self(call.script).raw[k].data # << >>
  /\ ret.script = call.script

(***************************************************************************)
(* Properties of the predicates.                                           *)
(***************************************************************************)
\* C14: for every byte sequence on which raw iteration raises (truncated
\* length prefix or truncated payload, at any position), is_valid,
\* is_push_only and has_canonical_pushes each return false and never
\* propagate the error; and is_valid returns true exactly when raw
\* iteration completes.
C14_PredicatesSwallowErrors ==
  call.op = "predicates" =>
    /\ ret.raw # "return" =>
         /\ ret.is_valid = Returns(FALSE)
         /\ ret.is_push_only = Returns(FALSE)
         /\ ret.has_canonical_pushes = Returns(FALSE)
    /\ ret.is_valid = Returns(ret.raw = "return")

\* a PUSHDATA2 without its length bytes, after a canonical push and an
\* OP_CHECKSIG
C14_Witness ==
  /\ call.op = "predicates"
  /\ call.script = << 1, OP_PUSHDATA1, OP_CHECKSIG, OP_PUSHDATA2, 1 >>
  /\ ret.raw = "CScriptInvalidError"
  /\ ret.is_valid = Returns(FALSE)
  /\ ret.is_push_only = Returns(FALSE)
  /\ ret.has_canonical_pushes = Returns(FALSE)

\* a yielded operation is a push in its smallest encoding, or no push
SmallestEncoding(opcode, len, first) ==
  /\ ~ (1 <= opcode /\ opcode < OP_PUSHDATA1 /\ len = 1 /\ first <= 16)
  /\ ~ (opcode = OP_PUSHDATA1 /\ len < 76)
  /\ ~ (opcode = OP_PUSHDATA2 /\ len <= 255)
  /\ ~ (opcode = OP_PUSHDATA4 /\ len <= 65535)

\* C15: has_canonical_pushes on a script whose raw iteration completes is
\* true exactly when every push uses the smallest encoding: no direct push
\* of a 1-byte payload whose byte value is <= 16, no OP_PUSHDATA1 with
\* payload shorter than 0x4C, no OP_PUSHDATA2 with payload of length <= 0xFF,
\* no OP_PUSHDATA4 with payload of length <= 0xFFFF; in particular a direct
\* push of the single byte 0x05 gives false.
C15_CanonicalExactly ==
  /\ (call.op = "predicates" /\ ret.raw = "return") =>
       LET raw == list_self(call.script).raw
       IN  ret.has_canonical_pushes =
             Returns(\A k \in 1..Len(raw) :
                       SmallestEncoding(raw[k].opcode, Len(raw[k].data),
                                        IF raw[k].data = << >> THEN 0
                                        ELSE raw[k].data[1]))
  /\ call.op = "has_canonical_pushes" =>
       ret = Returns(SmallestEncoding(IF call.pushop = 0 THEN call.len
                                      ELSE call.pushop,
                                      call.len, call.seed))

\* the direct push of the single byte 0x05
C15_Witness ==
  /\ call.op = "has_canonical_pushes"
  /\ call.pushop = 0
  /\ call.len = 1
  /\ call.seed = 5
  /\ ret = Returns(FALSE)

(***************************************************************************)
(* Properties of the push encoder.                                         *)
(***************************************************************************)
\* the prefix for a length of hi * 0x10000 + lo bytes: a single length byte
\* below 0x4C, OP_PUSHDATA1 and one byte up to 0xFF, OP_PUSHDATA2 and two
\* little-endian bytes up to 0xFFFF, OP_PUSHDATA4 and four up to 0xFFFFFFFF
SmallestPrefix(hi, lo) ==
  IF hi = 0 /\ lo < 76 THEN << lo >>
  ELSE IF hi = 0 /\ lo <= 255 THEN << OP_PUSHDATA1, lo >>
  ELSE IF hi = 0 THEN << OP_PUSHDATA2, lo % 256, lo \div 256 >>
  ELSE << OP_PUSHDATA4, lo % 256, lo \div 256, hi % 256, hi \div 256 >>

\* C16: encode_op_pushdata(d) uses the smallest prefix that fits len(d): a
\* single length byte for len < 0x4C, OP_PUSHDATA1 + 1-byte length for
\* 0x4C <= len <= 0xFF, OP_PUSHDATA2 + 2-byte little-endian length for
\* 0x100 <= len <= 0xFFFF, OP_PUSHDATA4 + 4-byte little-endian length for
\* 0x10000 <= len <= 0xFFFFFFFF, and fails with an error for longer data;
\* the prefix is always followed by d verbatim.
C16_SmallestPrefix ==
  /\ call.op = "encode_op_pushdata" =>
       /\ ret.ok
       /\ ret.bytes = SmallestPrefix(call.len \div 65536, call.len % 65536)
                        \o Payload(call.len, call.seed)
  /\ call.op = "encode_op_pushdata_prefix" =>
       IF call.hi <= 65535
       THEN ret.ok /\ ret.bytes = SmallestPrefix(call.hi, call.lo)
       ELSE ~ ret.ok

\* a payload of 0x100000000 bytes was refused
C16_Witness ==
  /\ call.op = "encode_op_pushdata_prefix"
  /\ call.hi = 65536
  /\ call.lo = 0
  /\ ~ ret.ok

\* the pushes of the keys in their order, each the smallest length prefix
\* and the key
RECURSIVE KeyPushesInOrder(_)
KeyPushesInOrder(keys) ==
  IF keys = << >> THEN << >>
  ELSE SmallestPrefix(0, Len(Head(keys))) \o Head(keys)
         \o KeyPushesInOrder(Tail(keys))

C17_WitnessRefused ==
  /\ call.op = "CreateMultisigRedeemScript"
  /\ Len(call.pubkeys) = 17
  /\ call.required = 1
  /\ ret = Raises("ValueError")

\* C18: to_p2sh_scriptPubKey raises ValueError exactly when checksize is
\* true and len(redeem) > MAX_SCRIPT_ELEMENT_SIZE (520); for
\* len(redeem) <= 520, and for any length when checksize is false, it
\* returns the script OP_HASH160, push of HASH160(redeem), OP_EQUAL (23
\* bytes: a9 14, the 20 bytes of the hash, 87), which is_p2sh accepts.
C18_P2SHWrapper ==
  call.op = "to_p2sh_scriptPubKey" =>
    /\ (ret = Raises("ValueError"))
         <=> (call.checksize /\ Len(call.redeem) > 520)
    /\ (Len(call.redeem) <= 520 \/ ~ call.checksize) =>
         /\ ret = Returns(<< 169, 20 >> \o Hash160(call.redeem) \o << 135 >>)
         /\ is_p2sh(ret.value)

\* a redeem script of exactly 520 bytes was wrapped with the size check on,
\* one of 521 bytes with the size check off
C18_Witness ==
  /\ call.op = "to_p2sh_scriptPubKey"
  /\ ret.status = "return"
  /\ Len(ret.value) = 23
  /\ \/ call.checksize /\ Len(call.redeem) = 520
     \/ ~ call.checksize /\ Len(call.redeem) = 521

\* a redeem script of 521 bytes was refused
C18_WitnessRefused ==
  /\ call.op = "to_p2sh_scriptPubKey"
  /\ call.checksize
  /\ Len(call.redeem) = 521
  /\ ret = Raises("ValueError")

\* the statements computing hashPrevouts and hashSequence have been executed
PastSequence(l) == l.pc \in { "w_outputs", "w_digest", "done" }

\* the serialized prevouts, and the nSequence values as 4 little-endian
\* bytes each, of all inputs of the transaction in order
AllPrevouts ==
  [k \in 1..NVin |-> [outpoint |-> heap0.txins[<< TxTo, k >>].prevout]]

AllSequences ==
  [b \in 1..(4 * NVin) |->
     (heap0.txins[<< TxTo, (b + 3) \div 4 >>].nSequence
        \div (256 ^ ((b - 1) % 4))) % 256]

\* C19: in SignatureHash with sigversion WITNESS_V0, hashPrevouts is 32 zero
\* bytes whenever ANYONECANPAY (0x80) is set and otherwise the double-SHA256
\* of all serialized prevouts in order; hashSequence is 32 zero bytes
\* whenever ANYONECANPAY is set or (hashtype & 0x1f) is SIGHASH_SINGLE or
\* SIGHASH_NONE, and otherwise the double-SHA256 of all nSequence values in
\* order; the digest returned is computed from these two values.
C19_WitnessZeroHashes ==
  \A t \in DOMAIN th :
    LET l == th[t]
        acp == (l.hashtype \div 128) % 2 = 1
        base == l.hashtype % 32
    IN  PastSequence(l) =>
          /\ l.hashPrevouts = IF acp THEN ZeroHash ELSE Hash(AllPrevouts)
          /\ l.hashSequence = IF acp \/ base = 3 \/ base = 2 THEN ZeroHash
                              ELSE Hash(AllSequences)
          /\ (l.pc = "done" /\ l.result.kind = "return") =>
               /\ l.result.hash.of.hashPrevouts = l.hashPrevouts
               /\ l.result.hash.of.hashSequence = l.hashSequence

\* a digest was returned for SIGHASH_NONE on two inputs: the prevouts were
\* hashed and the sequence hash is zero
C19_Witness ==
  /\ DOMAIN th = { 1 }
  /\ th[1].sigversion = SIGVERSION_WITNESS_V0
  /\ th[1].pc = "done"
  /\ th[1].result.kind = "return"
  /\ th[1].hashtype = SIGHASH_NONE
  /\ NVin = 2
  /\ th[1].hashPrevouts = Hash(AllPrevouts)
  /\ th[1].hashPrevouts # ZeroHash
  /\ th[1].hashSequence = ZeroHash

\* a digest was returned for SIGHASH_ALL on two inputs: both were hashed
C19_WitnessHashed ==
  /\ DOMAIN th = { 1 }
  /\ th[1].pc = "done"
  /\ th[1].result.kind = "return"
  /\ th[1].hashtype = SIGHASH_ALL
  /\ NVin = 2
  /\ th[1].hashSequence = Hash(AllSequences)
  /\ Len(AllSequences) = 8

\* a digest was returned for SIGHASH_ANYONECANPAY | SIGHASH_ALL: both zero
C19_WitnessAnyoneCanPay ==
  /\ DOMAIN th = { 1 }
  /\ th[1].pc = "done"
  /\ th[1].result.kind = "return"
  /\ th[1].hashtype = SIGHASH_ANYONECANPAY + SIGHASH_ALL
  /\ th[1].hashPrevouts = ZeroHash
  /\ th[1].hashSequence = ZeroHash

\* C20: every script for which is_witness_v0_keyhash (22 bytes, prefix
\* 00 14) or is_witness_v0_scripthash (34 bytes, prefix 00 20) is true also
\* has is_witness_scriptpubkey true and witness_version equal to 0.
C20_WitnessV0Templates ==
  call.op = "witness_templates" =>
    LET s == call.script
    IN  /\ ret.is_witness_v0_keyhash
             <=> (Len(s) = 22 /\ s[1] = 0 /\ s[2] = 20)
        /\ ret.is_witness_v0_scripthash
             <=> (Len(s) = 34 /\ s[1] = 0 /\ s[2] = 32)
        /\ (ret.is_witness_v0_keyhash \/ ret.is_witness_v0_scripthash) =>
             /\ ret.is_witness_scriptpubkey
             /\ ret.witness_version = Returns(Cooked("int", 0, << >>))

\* a 22-byte script 00 14 ... was recognised as a v0 key hash
C20_Witness ==
  /\ call.op = "witness_templates"
  /\ Len(call.script) = 22
  /\ ret.is_witness_v0_keyhash
  /\ ~ ret.is_witness_v0_scripthash
  /\ ret.is_witness_scriptpubkey
  /\ ret.witness_version.value.v = 0

\* a 34-byte script 00 20 ... was recognised as a v0 script hash
C20_WitnessScriptHash ==
  /\ call.op = "witness_templates"
  /\ Len(call.script) = 34
  /\ ret.is_witness_v0_scripthash
  /\ ret.is_witness_scriptpubkey

\* the bytes of the k-th operation of a script: from its start offset up to
\* the start offset of the next operation, or to the end of the script
OpRange(script, raw, k) ==
  Slice(script, raw[k].sop_idx,
        IF k < Len(raw) THEN raw[k + 1].sop_idx ELSE Len(script))

\* the ranges of operations k..Len(raw) at whose start the needle is not
\* found, one after the other
RECURSIVE KeptRanges(_, _, _, _)
KeptRanges(script, raw, sig, k) ==
  IF k > Len(raw) THEN << >>
  ELSE (IF Slice(script, raw[k].sop_idx, raw[k].sop_idx + Len(sig)) = sig
        THEN << >> ELSE OpRange(script, raw, k))
         \o KeptRanges(script, raw, sig, k + 1)

\* C21: for every script S on which raw iteration completes, the result of
\* FindAndDelete is the in-order concatenation of the complete byte ranges
\* of exactly those operations whose start offset k does not satisfy
\* S[k : k+len(sig)] == sig; a matching operation is dropped whole (even
\* when sig is shorter or longer than that operation), consecutive matching
\* operations are each dropped, and all other bytes are kept verbatim.
C21_OperationByOperation ==
  (call.op = "FindAndDelete" /\ ret.status = "return") =>
    ret.script = KeptRanges(call.script, list_self(call.script).raw, call.sig, 1)

\* a needle of one byte was found at the start of a push of two bytes,
\* between two opcodes: the push was dropped whole and the opcodes kept
C21_Witness ==
  /\ call.op = "FindAndDelete"
  /\ ret.status = "return"
  /\ Len(call.sig) = 1
  /\ LET raw == list_self(call.script).raw
     IN  /\ Len(raw) = 3
         /\ Len(OpRange(call.script, raw, 2)) = 2
         /\ call.script[raw[2].sop_idx + 1] = call.sig[1]
         /\ ret.script = OpRange(call.script, raw, 1)
                           \o OpRange(call.script, raw, 3)
         /\ Len(ret.script) = 2

\* a needle of one byte was found at the start of two consecutive pushes of
\* two bytes each: both were dropped
C21_WitnessConsecutive ==
  /\ call.op = "FindAndDelete"
  /\ ret.status = "return"
  /\ Len(call.sig) = 1
  /\ LET raw == list_self(call.script).raw
     IN  /\ Len(raw) = 2
         /\ \A k \in { 1, 2 } :
              /\ Len(OpRange(call.script, raw, k)) = 2
              /\ call.script[raw[k].sop_idx + 1] = call.sig[1]
         /\ ret.script = << >>

\* a needle longer than the operation it starts at: the operation alone is
\* dropped, the rest of the needle's bytes are kept
C21_WitnessLonger ==
  /\ call.op = "FindAndDelete"
  /\ ret.status = "return"
  /\ Len(call.sig) = 2
  /\ LET raw == list_self(call.script).raw
     IN  /\ Len(raw) >= 2
         /\ Len(OpRange(call.script, raw, 1)) = 1
         /\ Slice(call.script, 0, 2) = call.sig
         /\ ret.script = Slice(call.script, 1, Len(call.script))

\* RawSignatureHash has serialized and hashed a transaction
Hashed(l) == l.raw.kind = "return" /\ l.raw.err = None

\* the transaction that was serialized and hashed, its inputs by value
HashedTx(l) == l.raw.hash.of.tx

\* C22: when (hashtype & 0x1f) == SIGHASH_SINGLE and inIdx < len(vout), the
\* transaction that is serialized and hashed has exactly inIdx+1 outputs,
\* the first inIdx of them default outputs (value -1, empty script) and the
\* last equal to the caller's vout[inIdx], and every input other than inIdx
\* has nSequence 0 while input inIdx keeps its nSequence (with
\* SIGHASH_ANYONECANPAY input inIdx is the only input serialized).
C22_SingleInRange ==
  \A t \in DOMAIN th :
    LET l == th[t]
    IN  (Hashed(l) /\ l.hashtype % 32 = 3 /\ l.inIdx < NVout) =>
          LET tx == HashedTx(l)
              own == heap0.txins[heap0.txs[TxTo].vin[l.inIdx + 1]]
          IN  /\ Len(tx.vout) = l.inIdx + 1
              /\ \A k \in 1..l.inIdx :
                   tx.vout[k] = [nValue |-> -1, scriptPubKey |-> << >>]
              /\ tx.vout[l.inIdx + 1] = heap0.txs[TxTo].vout[l.inIdx + 1]
              /\ IF (l.hashtype \div 128) % 2 = 1
                 THEN /\ Len(tx.vin) = 1
                      /\ tx.vin[1].nSequence = own.nSequence
                      /\ tx.vin[1].prevout = own.prevout
                 ELSE /\ Len(tx.vin) = NVin
                      /\ \A k \in 1..NVin :
                           /\ tx.vin[k].prevout
                                = heap0.txins[heap0.txs[TxTo].vin[k]].prevout
                           /\ tx.vin[k].nSequence =
                                IF k = l.inIdx + 1 THEN own.nSequence ELSE 0

\* SIGHASH_SINGLE for the second of two inputs, with two outputs: a default
\* output and the caller's second output were hashed, the first input's
\* nSequence as 0 and the second input's as it was
C22_Witness ==
  /\ DOMAIN th = { 1 }
  /\ th[1].pc = "done"
  /\ Hashed(th[1])
  /\ th[1].hashtype = SIGHASH_SINGLE
  /\ th[1].inIdx = 1
  /\ NVin = 2
  /\ NVout = 2
  /\ HashedTx(th[1]).vout = << CTxOut_default, heap0.txs[TxTo].vout[2] >>
  /\ heap0.txs[TxTo].vout[2] # CTxOut_default
  /\ HashedTx(th[1]).vin[1].nSequence = 0
  /\ heap0.txins[<< TxTo, 1 >>].nSequence # 0
  /\ HashedTx(th[1]).vin[2].nSequence = heap0.txins[<< TxTo, 2 >>].nSequence
  /\ heap0.txins[<< TxTo, 2 >>].nSequence # 0

\* the statements computing hashOutputs have been executed
PastOutputs(l) == l.pc \in { "w_digest", "done" }

\* the serialized outputs of the transaction in order
AllOutputs == [k \in 1..NVout |-> [txout |-> heap0.txs[TxTo].vout[k]]]

\* hashOutputs is the double-SHA256 of all serialized outputs when
\* (hashtype & 0x1f) is neither SINGLE nor NONE, the double-SHA256 of
\* vout[inIdx] alone when it is SINGLE and inIdx < len(vout), and 32 zero
\* bytes otherwise; the digest returned is computed from it
HashOutputsSelection(l) ==
  LET base == l.hashtype % 32
  IN  PastOutputs(l) =>
        /\ l.hashOutputs =
             IF base # 3 /\ base # 2 THEN Hash(AllOutputs)
             ELSE IF base = 3 /\ l.inIdx < NVout
             THEN Hash(<< [txout |-> heap0.txs[TxTo].vout[l.inIdx + 1]] >>)
             ELSE ZeroHash
        /\ (l.pc = "done" /\ l.result.kind = "return") =>
             /\ l.result.hash.of.hashOutputs = l.hashOutputs
             /\ l.result.hash.kind = "Hash"
             /\ l.result.err = None

\* the call has ended by returning a digest computed from zero hashOutputs
NormalDigestZeroOutputs(l) ==
  /\ l.result.kind = "return"
  /\ l.result.err = None
  /\ l.result.hash.kind = "Hash"
  /\ l.result.hash.of.hashOutputs = ZeroHash

\* C23 as stated: in SignatureHash with sigversion WITNESS_V0 (and an
\* amount), hashOutputs is selected as above; in particular SIGHASH_SINGLE
\* with inIdx >= len(vout) yields a normal digest with zero hashOutputs,
\* never the sentinel digest or an out-of-range error.
C23_Original ==
  \A t \in DOMAIN th :
    LET l == th[t]
    IN  /\ HashOutputsSelection(l)
        /\ ( /\ l.pc = "done"
             /\ l.amountGiven
             /\ l.hashtype % 32 = 3
             /\ l.inIdx >= NVout ) => NormalDigestZeroOutputs(l)

\* C23 amended: hashOutputs is selected as above; SIGHASH_SINGLE with
\* inIdx >= len(vout) yields a normal digest with zero hashOutputs, never
\* the sentinel digest, when inIdx < len(vin) and an amount is given; when
\* inIdx >= len(vin) the call raises IndexError for every hashtype, after
\* the three hashes were computed.
C23_HashOutputsSelection ==
  \A t \in DOMAIN th :
    LET l == th[t]
    IN  /\ HashOutputsSelection(l)
        /\ ( /\ l.pc = "done"
             /\ l.amountGiven
             /\ l.hashtype % 32 = 3
             /\ l.inIdx >= NVout
             /\ l.inIdx < NVin ) => NormalDigestZeroOutputs(l)
        /\ (l.pc = "done" /\ l.inIdx >= NVin) =>
             /\ l.result.kind = "raise"
             /\ l.result.exc = "IndexError"

\* SIGHASH_SINGLE for the second of two inputs of a transaction with one
\* output: a digest was returned, computed from zero hashOutputs
C23_Witness ==
  /\ DOMAIN th = { 1 }
  /\ th[1].sigversion = SIGVERSION_WITNESS_V0
  /\ th[1].pc = "done"
  /\ th[1].hashtype = SIGHASH_SINGLE
  /\ th[1].inIdx = 1
  /\ NVin = 2
  /\ NVout = 1
  /\ NormalDigestZeroOutputs(th[1])
  /\ th[1].hashOutputs = ZeroHash

\* SIGHASH_SINGLE for the first input of a transaction with two outputs:
\* the first output alone was hashed
C23_WitnessInRange ==
  /\ DOMAIN th = { 1 }
  /\ th[1].pc = "done"
  /\ th[1].result.kind = "return"
  /\ th[1].hashtype = SIGHASH_SINGLE
  /\ th[1].inIdx = 0
  /\ NVout = 2
  /\ th[1].hashOutputs = Hash(<< [txout |-> heap0.txs[TxTo].vout[1]] >>)
  /\ th[1].hashOutputs # Hash(AllOutputs)

(***************************************************************************)
(* Raw iteration tiles the script.                                         *)
(***************************************************************************)
\* the bytes an operation takes: its opcode, for a push the length bytes of
\* OP_PUSHDATA1/2/4 (1, 2, 4), and its data
OpWidth(op) ==
  1 + (IF ~ op.hasData THEN 0
       ELSE Len(op.data) + (IF op.opcode = 76 THEN 1
                            ELSE IF op.opcode = 77 THEN 2
                            ELSE IF op.opcode = 78 THEN 4
                            ELSE 0))

\* the offset after the k-th yielded operation
YieldedEnd(k) == yielded[k].sop_idx + OpWidth(yielded[k])

\* C24: for every byte sequence, the start offsets raw iteration yields
\* begin at 0 and strictly increase, each yielded operation occupies exactly
\* the bytes from its start offset up to the next yielded start offset (its
\* opcode byte first, its data last), and when iteration completes without
\* error the last operation ends exactly at the end of the script, so the
\* yielded byte ranges concatenate to the whole script with no gap or
\* overlap.
C24_RawIterTiles ==
  /\ \A k \in 1..Len(yielded) :
       /\ yielded[k].sop_idx = IF k = 1 THEN 0 ELSE YieldedEnd(k - 1)
       /\ k > 1 => yielded[k - 1].sop_idx < yielded[k].sop_idx
       /\ YieldedEnd(k) <= Len(self)
       /\ self[yielded[k].sop_idx + 1] = yielded[k].opcode
       /\ yielded[k].hasData =>
            yielded[k].data
              = [b \in 1..Len(yielded[k].data) |->
                   self[YieldedEnd(k) - Len(yielded[k].data) + b]]
  /\ iterState \in { "running", "done" } =>
       i = IF yielded = << >> THEN 0 ELSE YieldedEnd(Len(yielded))
  /\ iterState = "done" => i = Len(self)

\* iteration completed over an opcode, an OP_PUSHDATA1 push of one byte and
\* another operation: three ranges of 1, 3 and 1 bytes
C24_Witness ==
  /\ iterState = "done"
  /\ Len(self) = 5
  /\ Len(yielded) = 3
  /\ ~ yielded[1].hasData
  /\ yielded[2].opcode = OP_PUSHDATA1
  /\ Len(yielded[2].data) = 1
  /\ yielded[2].sop_idx = 1
  /\ yielded[3].sop_idx = 4

\* C25: for every redeem script on which to_p2sh_scriptPubKey returns
\* (including oversize scripts with checksize=false), the returned script is
\* exactly 23 bytes and satisfies is_p2sh, is_valid and is_push_only = false.
C25_P2SHAgreement ==
  (call.op = "p2sh_recognizers" /\ ret.built.status = "return") =>
    /\ Len(ret.built.value) = 23
    /\ ret.is_p2sh
    /\ ret.is_valid = Returns(TRUE)
    /\ ret.is_push_only = Returns(FALSE)

\* a redeem script of 521 bytes was wrapped without the size check, and one
\* of 520 bytes with it
C25_Witness ==
  /\ call.op = "p2sh_recognizers"
  /\ ret.built.status = "return"
  /\ \/ ~ call.checksize /\ Len(call.redeem) = 521
     \/ call.checksize /\ Len(call.redeem) = 520
  /\ ret.is_p2sh
  /\ ret.is_valid = Returns(TRUE)
  /\ ret.is_push_only = Returns(FALSE)
  /\ ret.built.value[23] = OP_EQUAL

=============================================================================
